---- MODULE Spec2Model ----
(***************************************************************************)
(* State-machine model of the RAG ingestion pipeline                       *)
(* (VectorStoreFactory.createChromaStore, RetrieverBuilder), of the        *)
(* thread-keyed conversation graphs (runTime / runRAG) and of the          *)
(* collection cleaning tool (clean_vector_db.js).                          *)
(***************************************************************************)
EXTENDS Integers, Sequences, FiniteSets, TLC

VARIABLES
    collections,   \* the Chroma server: collection name -> Absent or the sequence of stored items
    build,         \* build id -> the locals of one createChromaStore invocation
    calls,         \* the external calls issued so far, in order
    rb,            \* the locals of one RetrieverBuilder.buildChromaRetriever invocation
    checkpoints,   \* MemorySaver of `app`: thread id -> persisted message sequence
    usedIds,       \* thread ids already used as a key or minted by uuidv4
    turn,          \* the turn in flight on `app` (runTime), or the record of the last one
    ragCheckpoints, \* MemorySaver of `ragApp`: thread id -> persisted message sequence
    ragTurn,       \* the turn in flight on `ragApp` (runRAG), or the record of the last one
    clean,         \* the locals of one run of the cleaning tool (clean_vector_db.js)
    san,           \* one use of DocumentProcessor.sanitizeMetadata: its input and results
    stream,        \* one run of the CLI's stream consumer: the events and what was printed
    cli,           \* the locals of the chat CLI (main of the agent)
    tr             \* the translation CLI: its sessions map and locals

vars == <<collections, build, calls, rb, checkpoints, usedIds, turn, ragCheckpoints,
          ragTurn, clean, san, stream, cli, tr>>
builderVars == <<rb>>
graphVars == <<checkpoints, usedIds, turn, ragCheckpoints, ragTurn>>
toolVars == <<clean>>
auxVars == <<san, stream, cli, tr>>

----------------------------------------------------------------------------
(* Bounds *)

MaxDocs == 2        \* longest chunk list handed to createChromaStore
MaxBatch == 2       \* largest batchSize option
MaxSub == 2         \* largest embedSubBatchSize option
MaxExtra == 1       \* how many vectors more than texts the embedder may return

----------------------------------------------------------------------------
(* JavaScript values *)

Undefined == [t |-> "undefined", s |-> <<>>]
Num == [t |-> "number", s |-> <<>>]
Str(s) == [t |-> "string", s |-> s]

Min(a, b) == IF a < b THEN a ELSE b

RECURSIVE trimStart(_)
trimStart(s) ==
    IF s = <<>> THEN s
    ELSE IF Head(s) = " " THEN trimStart(Tail(s)) ELSE s

RECURSIVE trimEnd(_)
trimEnd(s) ==
    IF s = <<>> THEN s
    ELSE IF s[Len(s)] = " " THEN trimEnd(SubSeq(s, 1, Len(s) - 1)) ELSE s

trim(s) == trimEnd(trimStart(s))

\* Array.prototype.join("") of strings
RECURSIVE join(_)
join(strings) == IF strings = <<>> THEN "" ELSE Head(strings) \o join(Tail(strings))

\* a slice that returns the whole array
sliceWhole(a, from, to) == a

\* Array.prototype.slice(from, to) on a 0-based array
slice(a, from, to) == SubSeq(a, from + 1, Min(to, Len(a)))

\* pageContent values a chunk may carry
ContentSamples ==
    { Str(<<"a">>), Str(<<>>), Str(<<" ">>), Undefined, Num }

\* vectors an embedder may return for one text
VecOk == [kind |-> "Array", elems |-> <<"number">>]
VecEmpty == [kind |-> "Array", elems |-> <<>>]
VecNonNumeric == [kind |-> "Array", elems |-> <<"string">>]
VecUndefined == [kind |-> "undefined", elems |-> <<>>]
VecString == [kind |-> "string", elems |-> <<"string">>]
VecAbsent == [kind |-> "absent", elems |-> <<>>]
VectorSamples == { VecOk, VecEmpty, VecNonNumeric, VecString }

SeqsUpTo(S, n) == UNION { [1..k -> S] : k \in 0..n }

----------------------------------------------------------------------------
(* The Chroma server *)

Absent == "absent"
DefaultCollection == "langchain-docs"
CollectionNames == { DefaultCollection }
OldItem == [b |-> 0, chunk |-> 1]      \* an item left by an earlier build

Items(b, docs) == [k \in 1..Len(docs) |-> [b |-> b, chunk |-> docs[k]]]

Call(b, op, batch, docs) == [b |-> b, op |-> op, batch |-> batch, docs |-> docs]

----------------------------------------------------------------------------
(* VectorStoreFactory.createChromaStore *)

NoError == <<>>

IdleBuild ==
    [ pc |-> "idle", documents |-> <<>>, collectionName |-> DefaultCollection,
      batchSize |-> 1, resetCollection |-> TRUE, embedSubBatchSize |-> 1,
      preEmbedFilter |-> TRUE, filteredDocuments |-> <<>>, removed |-> 0,
      deleted |-> "none", vectorStore |-> Undefined, insertedTotal |-> 0,
      i |-> 0, s |-> 0, cleaned |-> <<>>, removedCount |-> 0,
      removedVectors |-> 0, vectorOf |-> <<>>, error |-> NoError ]

\* a filter that tests the length of the content without trimming it
hasContentUntrimmed(content) ==
    content.t = "string" /\ Len(content.s) > 0

\* the filter predicate of lines 41-44
hasContent(content) ==
    content.t = "string" /\ Len(trim(content.s)) > 0

filterDocuments(documents) ==
    SelectSeq([k \in 1..Len(documents) |-> k], LAMBDA k : hasContent(documents[k]))

batchNumber(i, batchSize) == (i \div batchSize) + 1

isArrayLike(v) == v.kind \in {"Array", "Float32Array"}

\* a check that accepts every array-like vector, the empty one included
keepsAnyArray(vec) == isArrayLike(vec)

keepsVector(vec) == isArrayLike(vec) /\ Len(vec.elems) > 0

\* sub[idx] of a JavaScript array: undefined (0) past the end
At(sub, idx) == IF idx <= Len(sub) THEN sub[idx] ELSE 0

\* the vectors.forEach of lines 103-109: the documents pushed to `cleaned`
pushed(vectors, sub) ==
    LET F[k \in 0..Len(vectors)] ==
            IF k = 0 THEN <<>>
            ELSE IF keepsVector(vectors[k]) THEN Append(F[k - 1], At(sub, k))
                 ELSE F[k - 1]
    IN  F[Len(vectors)]

\* the vectors.forEach of lines 103-109: the increments of `removed`
dropped(vectors) ==
    Cardinality({ k \in 1..Len(vectors) : ~keepsVector(vectors[k]) })

\* createChromaStore is entered: the state at the call
createChromaStore(b, documents, options) ==
    [ IdleBuild EXCEPT
        !.pc = "filter",
        !.documents = documents,
        !.collectionName = options.collectionName,
        !.batchSize = options.batchSize,
        !.resetCollection = options.resetCollection,
        !.embedSubBatchSize = options.embedSubBatchSize,
        !.preEmbedFilter = options.preEmbedFilter,
        !.vectorOf = [k \in 1..Len(documents) |-> VecAbsent] ]

StoreOptions ==
    [ collectionName : {DefaultCollection}, batchSize : 1..MaxBatch,
      resetCollection : BOOLEAN, embedSubBatchSize : 1..MaxSub,
      preEmbedFilter : BOOLEAN ]

\* lines 39-50: filter out the chunks without content
FilterDocuments(b) ==
    /\ build[b].pc = "filter"
    /\ LET kept == filterDocuments(build[b].documents) IN
       build' = [build EXCEPT ![b] = [@ EXCEPT
                    !.filteredDocuments = kept,
                    !.removed = Len(build[b].documents) - Len(kept),
                    !.pc = "reset"]]
    /\ UNCHANGED <<collections, calls, builderVars, graphVars, toolVars, auxVars>>

\* a reset that lets the failure of deleteCollection on a missing collection escape
ResetCollectionStrict(b) ==
    /\ build[b].pc = "reset"
    /\ LET name == build[b].collectionName IN
       IF build[b].resetCollection
       THEN /\ calls' = Append(calls, Call(b, "deleteCollection", 0, <<>>))
            /\ \/ /\ collections[name] # Absent
                  /\ collections' = [collections EXCEPT ![name] = Absent]
                  /\ build' = [build EXCEPT ![b] = [@ EXCEPT !.deleted = "deleted", !.pc = "loop"]]
               \/ /\ collections[name] = Absent
                  /\ UNCHANGED collections
                  /\ build' = [build EXCEPT ![b] = [@ EXCEPT
                                  !.deleted = "notfound", !.pc = "thrown",
                                  !.error = <<[text |-> "ChromaDB connection failed",
                                               batch |-> 0, sub |-> 0]>>]]
               \/ /\ collections[name] # Absent
                  /\ UNCHANGED collections
                  /\ build' = [build EXCEPT ![b] = [@ EXCEPT !.deleted = "failed", !.pc = "loop"]]
       ELSE /\ build' = [build EXCEPT ![b] = [@ EXCEPT !.pc = "loop"]]
            /\ UNCHANGED <<collections, calls>>
    /\ UNCHANGED <<builderVars, graphVars, toolVars, auxVars>>

\* a reset that deletes every collection of the server
ResetCollectionAll(b) ==
    /\ build[b].pc = "reset"
    /\ calls' = Append(calls, Call(b, "deleteCollection", 0, <<>>))
    /\ collections' = [name \in DOMAIN collections |-> Absent]
    /\ build' = [build EXCEPT ![b] = [@ EXCEPT !.deleted = "deleted", !.pc = "loop"]]
    /\ UNCHANGED <<builderVars, graphVars, toolVars, auxVars>>

\* lines 59-67: the optional reset; every failure of deleteCollection is swallowed
ResetCollection(b) ==
    /\ build[b].pc = "reset"
    /\ LET name == build[b].collectionName IN
       IF build[b].resetCollection
       THEN /\ calls' = Append(calls, Call(b, "deleteCollection", 0, <<>>))
            /\ \/ /\ collections[name] # Absent
                  /\ collections' = [collections EXCEPT ![name] = Absent]
                  /\ build' = [build EXCEPT ![b] = [@ EXCEPT !.deleted = "deleted", !.pc = "loop"]]
               \/ /\ collections[name] = Absent
                  /\ UNCHANGED collections
                  /\ build' = [build EXCEPT ![b] = [@ EXCEPT !.deleted = "notfound", !.pc = "loop"]]
               \/ /\ collections[name] # Absent      \* the server or the network fails
                  /\ UNCHANGED collections
                  /\ build' = [build EXCEPT ![b] = [@ EXCEPT !.deleted = "failed", !.pc = "loop"]]
       ELSE /\ build' = [build EXCEPT ![b] = [@ EXCEPT !.pc = "loop"]]
            /\ UNCHANGED <<collections, calls>>
    /\ UNCHANGED <<builderVars, graphVars, toolVars, auxVars>>

\* an Error message: the wrappers around the cause, outermost first
wrap(text, batch, sub, inner) ==
    <<[text |-> text, batch |-> batch, sub |-> sub]>> \o inner

\* lines 99-102: a failed sub-batch embedding
embedError(b, cause) ==
    wrap("embedding failed", batchNumber(build[b].i, build[b].batchSize),
         (build[b].s \div build[b].embedSubBatchSize) + 1, cause)

\* a catch of the batch that rethrows without the batch number
batchErrorUnnumbered(b, inner) ==
    wrap("ChromaDB connection failed", 0, 0, wrap("batch failed", 0, 0, inner))

\* lines 145-148 and 157-160: the catch of the batch, then the catch of the build
batchError(b, inner) ==
    wrap("ChromaDB connection failed", 0, 0,
         wrap("batch failed", batchNumber(build[b].i, build[b].batchSize), 0, inner))

Cause(text) == wrap(text, 0, 0, <<>>)

Thrown(b, message) ==
    [build EXCEPT ![b] = [@ EXCEPT !.pc = "thrown", !.error = message]]

\* a batch that takes one chunk more than batchSize
batchOfOneMore(b) ==
    slice(build[b].filteredDocuments, build[b].i, build[b].i + build[b].batchSize + 1)

\* the batch of the current loop iteration (line 77)
batchOf(b) ==
    slice(build[b].filteredDocuments, build[b].i, build[b].i + build[b].batchSize)

\* the sub-batch of the current inner iteration (line 94)
subOf(b) ==
    slice(batchOf(b), build[b].s, build[b].s + build[b].embedSubBatchSize)

\* lines 76-89: the loop test, and the start of one batch
BatchBegin(b) ==
    /\ build[b].pc = "loop"
    /\ build[b].i < Len(build[b].filteredDocuments)
    /\ build' = [build EXCEPT ![b] =
                    IF build[b].preEmbedFilter
                    THEN [@ EXCEPT !.cleaned = <<>>, !.removedCount = 0, !.s = 0, !.pc = "embed"]
                    ELSE [@ EXCEPT !.cleaned = batchOf(b), !.removedCount = 0, !.pc = "write"]]
    /\ UNCHANGED <<collections, calls, builderVars, graphVars, toolVars, auxVars>>

\* the state of the build after the forEach over `vectors` (lines 103-110)
afterVectors(b, vectors) ==
    LET sub == subOf(b)
        next == build[b].s + build[b].embedSubBatchSize
    IN  [build[b] EXCEPT
            !.cleaned = @ \o pushed(vectors, sub),
            !.removedCount = @ + dropped(vectors),
            !.vectorOf = [c \in DOMAIN @ |->
                            IF \E k \in 1..Min(Len(sub), Len(vectors)) : sub[k] = c
                            THEN vectors[CHOOSE k \in 1..Len(sub) : sub[k] = c]
                            ELSE @[c]],
            !.s = next,
            !.pc = IF next < Len(batchOf(b)) THEN "embed" ELSE "write"]

\* lines 93-110: one embedDocuments call and the scan of what it returned
EmbedSubBatch(b) ==
    /\ build[b].pc = "embed"
    /\ calls' = Append(calls, Call(b, "embedDocuments",
                                   batchNumber(build[b].i, build[b].batchSize), subOf(b)))
    /\ \/ \E vectors \in SeqsUpTo(VectorSamples, Len(subOf(b)) + MaxExtra) :
             build' = [build EXCEPT ![b] = afterVectors(b, vectors)]
       \/ \* the embedder rejects
          build' = Thrown(b, batchError(b, embedError(b, Cause("embedder error"))))
       \/ \* the embedder resolves with a value that has no forEach
          build' = Thrown(b, batchError(b, Cause("vectors.forEach is not a function")))
    /\ UNCHANGED <<collections, builderVars, graphVars, toolVars, auxVars>>

\* lines 115-121: a batch with nothing left after cleaning is skipped
SkipBatch(b) ==
    /\ build[b].pc = "write"
    /\ build[b].cleaned = <<>>
    /\ build' = [build EXCEPT ![b] = [@ EXCEPT
                    !.removedVectors = @ + build[b].removedCount,
                    !.i = @ + build[b].batchSize,
                    !.pc = "loop"]]
    /\ UNCHANGED <<collections, calls, builderVars, graphVars, toolVars, auxVars>>

\* an insert that does not remember the store it created
afterInsertForgetStore(b, store) ==
    [build[b] EXCEPT
        !.insertedTotal = @ + Len(build[b].cleaned),
        !.removedVectors = @ + build[b].removedCount,
        !.i = @ + build[b].batchSize,
        !.pc = "loop"]

\* the state of the build after a successful insert (lines 138, 141, 144)
afterInsert(b, store) ==
    [build[b] EXCEPT
        !.vectorStore = store,
        !.insertedTotal = @ + Len(build[b].cleaned),
        !.removedVectors = @ + build[b].removedCount,
        !.i = @ + build[b].batchSize,
        !.pc = "loop"]

\* the server stores the documents: Chroma reads pageContent of each of them,
\* so a list holding undefined cannot be written
Writable(docs) == \A k \in 1..Len(docs) : docs[k] # 0

StoreHandle(name) == [t |-> "Chroma", s |-> <<name>>]

\* lines 124-138: the first non-empty cleaned batch creates the collection
CreateFromDocuments(b) ==
    /\ build[b].pc = "write"
    /\ build[b].cleaned # <<>>
    /\ build[b].vectorStore = Undefined
    /\ calls' = Append(calls, Call(b, "fromDocuments",
                                   batchNumber(build[b].i, build[b].batchSize), build[b].cleaned))
    /\ LET name == build[b].collectionName IN
       \/ /\ Writable(build[b].cleaned)
          /\ collections' = [collections EXCEPT ![name] =
                                (IF @ = Absent THEN <<>> ELSE @) \o Items(b, build[b].cleaned)]
          /\ build' = [build EXCEPT ![b] = afterInsert(b, StoreHandle(name))]
       \/ /\ UNCHANGED collections
          /\ build' = Thrown(b, batchError(b, Cause("insert error")))
    /\ UNCHANGED <<builderVars, graphVars, toolVars, auxVars>>

\* lines 139-142: every later non-empty cleaned batch is appended
AddDocuments(b) ==
    /\ build[b].pc = "write"
    /\ build[b].cleaned # <<>>
    /\ build[b].vectorStore # Undefined
    /\ calls' = Append(calls, Call(b, "addDocuments",
                                   batchNumber(build[b].i, build[b].batchSize), build[b].cleaned))
    /\ LET name == build[b].collectionName IN
       \/ /\ Writable(build[b].cleaned)
          /\ collections[name] # Absent
          /\ collections' = [collections EXCEPT ![name] = @ \o Items(b, build[b].cleaned)]
          /\ build' = [build EXCEPT ![b] = afterInsert(b, build[b].vectorStore)]
       \/ /\ UNCHANGED collections
          /\ build' = Thrown(b, batchError(b, Cause("insert error")))
    /\ UNCHANGED <<builderVars, graphVars, toolVars, auxVars>>

\* lines 151-156: the loop is over, the build returns vectorStore
ReturnStore(b) ==
    /\ build[b].pc = "loop"
    /\ ~(build[b].i < Len(build[b].filteredDocuments))
    /\ build' = [build EXCEPT ![b] = [@ EXCEPT !.pc = "returned"]]
    /\ UNCHANGED <<collections, calls, builderVars, graphVars, toolVars, auxVars>>

StoreStep(b) ==
    \/ FilterDocuments(b)
    \/ ResetCollection(b)
    \/ BatchBegin(b)
    \/ EmbedSubBatch(b)
    \/ SkipBatch(b)
    \/ CreateFromDocuments(b)
    \/ AddDocuments(b)
    \/ ReturnStore(b)

\* a builder that has not been asked for anything
IdleBuilder ==
    [ pc |-> "idle", mode |-> "none", k |-> 30, chromaOptions |-> [collectionName |-> DefaultCollection,
      batchSize |-> 1, resetCollection |-> TRUE, embedSubBatchSize |-> 1,
      preEmbedFilter |-> TRUE], testVector |-> VecAbsent, probeThrew |-> FALSE,
      rawDocs |-> <<>>, splitDocs |-> <<>>, unserializable |-> FALSE,
      sanitizedDocs |-> <<>>, vectorStore |-> Undefined,
      dbIntegrity |-> [isValid |-> FALSE, expectedCount |-> 0, actualCount |-> -1,
                       testQuerySuccess |-> FALSE, error |-> <<>>],
      retriever |-> Undefined, error |-> <<>> ]
\* no turn has been run yet
NoTurn ==
    [ pc |-> "idle", n |-> 0, supplied |-> "undefined", thread |-> "undefined",
      fresh |-> FALSE, messages |-> <<>>, prompt |-> <<>>, outcome |-> "none",
      reply |-> "" ]

\* no RAG turn has been run yet
NoRagTurn ==
    [ pc |-> "idle", n |-> 0, supplied |-> "undefined", thread |-> "undefined",
      fresh |-> FALSE, before |-> <<>>, messages |-> <<>>, input |-> "",
      chat_history |-> <<>>, retrieved |-> "none", generations |-> 0,
      result |-> <<>>, error |-> "", outcome |-> "none", reply |-> "", earlier |-> <<>> ]
\* the cleaning tool has not been started
IdleClean ==
    [ pc |-> "idle", entry |-> "none", collectionName |-> DefaultCollection,
      validUrl |-> TRUE, listed |-> -1, outcome |-> "none", result |-> "none",
      exitCode |-> -1 ]

\* a component that has not been started
Idle == [pc |-> "idle"]

\* one createChromaStore call on any chunk list, any options, any prior collection
InitStore ==
    /\ \E documents \in SeqsUpTo(ContentSamples, MaxDocs), options \in StoreOptions :
          build = [b \in {1} |-> createChromaStore(b, documents, options)]
    /\ collections \in [CollectionNames -> {Absent, <<OldItem>>}]
    /\ calls = <<>>
    /\ rb = IdleBuilder
    /\ checkpoints = <<>>
    /\ usedIds = {}
    /\ turn = NoTurn
    /\ ragCheckpoints = <<>>
    /\ ragTurn = NoRagTurn
    /\ san = Idle
    /\ stream = Idle
    /\ cli = Idle
    /\ tr = Idle
    /\ clean = IdleClean

NextStore == \E b \in DOMAIN build : StoreStep(b)

SpecStore == InitStore /\ [][NextStore]_vars

----------------------------------------------------------------------------
(* Properties of createChromaStore *)

\* a pageContent that is missing, not a string, empty or made of whitespace only
Blank(content) ==
    \/ content.t # "string"
    \/ \A k \in 1..Len(content.s) : content.s[k] = " "

InsertOps == {"fromDocuments", "addDocuments"}

\* the positions, in the call log, of the calls of build b with an operation of ops
CallsOf(b, ops) == { k \in 1..Len(calls) : calls[k].b = b /\ calls[k].op \in ops }

\* the chunks of build b that the collection holds, in stored order
StoredBy(b) ==
    LET c == collections[build[b].collectionName]
    IN  IF c = Absent THEN <<>> ELSE SelectSeq(c, LAMBDA item : item.b = b)

\* C1: a chunk whose pageContent is missing, not a string, empty or
\* whitespace-only is never handed to embedDocuments, never handed to
\* Chroma.fromDocuments / addDocuments, and never counted in insertedTotal
\* (insertedTotal counts exactly the stored chunks, none of which is blank).
C1_BlankNeverEmbeddedNorInserted ==
    \A b \in DOMAIN build :
        /\ \A k \in CallsOf(b, InsertOps \cup {"embedDocuments"}) :
              \A j \in 1..Len(calls[k].docs) :
                 calls[k].docs[j] \in 1..Len(build[b].documents)
                    => ~Blank(build[b].documents[calls[k].docs[j]])
        /\ \A j \in 1..Len(StoredBy(b)) :
              ~Blank(build[b].documents[StoredBy(b)[j].chunk])
        /\ build[b].insertedTotal = Len(StoredBy(b))

C1_Witness ==
    \E b \in DOMAIN build :
        /\ build[b].pc = "returned"
        /\ build[b].preEmbedFilter
        /\ build[b].insertedTotal = 1
        /\ \E c \in 1..Len(build[b].documents) : build[b].documents[c] = Str(<<" ">>)
        /\ CallsOf(b, {"embedDocuments"}) # {}

\* C2 (as claimed): for a build that returns with preEmbedFilter enabled,
\* insertedTotal + filteredCount = inputCount, whatever list the embedder returned.
C2_InsertedPlusFilteredIsInput ==
    \A b \in DOMAIN build :
        (build[b].pc = "returned" /\ build[b].preEmbedFilter)
            => build[b].insertedTotal + build[b].removed + build[b].removedVectors
                 = Len(build[b].documents)

\* a non-empty numeric sequence
NumericVector(vec) ==
    /\ vec.kind \in {"Array", "Float32Array"}
    /\ vec.elems # <<>>
    /\ \A k \in 1..Len(vec.elems) : vec.elems[k] = "number"

\* a non-empty array or typed array, whatever its elements are
NonEmptyArray(vec) ==
    /\ vec.kind \in {"Array", "Float32Array"}
    /\ vec.elems # <<>>

\* the chunks of the input list handed to an insert call of build b
HandedToInsert(b) ==
    { c \in 1..Len(build[b].documents) :
        \E k \in CallsOf(b, InsertOps) : \E j \in 1..Len(calls[k].docs) : calls[k].docs[j] = c }

C7_ReturnsHandle ==
    \A b \in DOMAIN build :
        build[b].pc = "returned" => build[b].vectorStore # Undefined

StoreOps == InsertOps \cup {"embedDocuments"}

\* C4: Chroma.fromDocuments is called at most once, before every addDocuments
\* call; the calls of a batch never precede a call of an earlier batch and
\* nothing of a batch follows its insert; a batch whose cleaned list is empty
\* moves on without a call, without a write and without aborting, and a batch
\* whose cleaned list is non-empty issues fromDocuments if no insert was
\* issued before and addDocuments otherwise.
C4_FirstCreatesRestAppend ==
    /\ [](\A b \in DOMAIN build :
            /\ Cardinality(CallsOf(b, {"fromDocuments"})) <= 1
            /\ \A k \in CallsOf(b, {"addDocuments"}) :
                  \E j \in CallsOf(b, {"fromDocuments"}) : j < k
            /\ \A j, k \in CallsOf(b, StoreOps) :
                  j < k => /\ calls[j].batch <= calls[k].batch
                           /\ calls[j].op \in InsertOps => calls[j].batch < calls[k].batch)
    /\ [][\A b \in DOMAIN build :
            (build[b].pc = "write" /\ build'[b] # build[b]) =>
                IF build[b].cleaned = <<>>
                THEN /\ calls' = calls
                     /\ collections' = collections
                     /\ build'[b].pc = "loop"
                     /\ build'[b].vectorStore = build[b].vectorStore
                ELSE /\ Len(calls') = Len(calls) + 1
                     /\ calls'[Len(calls')].b = b
                     /\ calls'[Len(calls')].docs = build[b].cleaned
                     /\ calls'[Len(calls')].op =
                           IF CallsOf(b, InsertOps) = {} THEN "fromDocuments"
                           ELSE "addDocuments"]_vars

C4_Witness ==
    \E b \in DOMAIN build :
        /\ build[b].pc = "returned"
        /\ \E j, k \in 1..Len(calls) :
              /\ calls[j].op = "fromDocuments" /\ calls[j].batch = 1
              /\ calls[k].op = "addDocuments" /\ calls[k].batch = 2
        /\ CallsOf(b, {"embedDocuments"}) # {}

\* the documents of the insert calls of build b for the batches before batch n
InsertedBefore(b, n) ==
    LET F[k \in 0..Len(calls)] ==
            IF k = 0 THEN <<>>
            ELSE IF k \in CallsOf(b, InsertOps) /\ calls[k].batch < n
                 THEN F[k - 1] \o Items(b, calls[k].docs)
                 ELSE F[k - 1]
    IN  F[Len(calls)]

\* C5: when the embedding or the insertion of batch N fails, the error thrown
\* names batch N (and no other batch), the failing call is the last call the
\* build made, no call was made for a later batch, and the collection still
\* holds what batches 1..N-1 inserted.
C5_FailedBatchAborts ==
    \A b \in DOMAIN build :
        build[b].pc = "thrown" =>
            LET error == build[b].error
                own == CallsOf(b, StoreOps \cup {"deleteCollection"})
                last == CHOOSE k \in own : \A j \in own : j <= k
            IN  /\ \E w \in 1..Len(error) : error[w].batch # 0
                /\ \A w \in 1..Len(error) :
                      error[w].batch # 0 =>
                         (error[w].batch - 1) * build[b].batchSize = build[b].i
                /\ calls[last].op \in StoreOps
                /\ (calls[last].batch - 1) * build[b].batchSize = build[b].i
                /\ \A k \in own : calls[k].batch <= calls[last].batch
                /\ StoredBy(b) = InsertedBefore(b, calls[last].batch)
                /\ Len(StoredBy(b)) = build[b].insertedTotal

C5_Witness ==
    \E b \in DOMAIN build :
        /\ build[b].pc = "thrown"
        /\ build[b].insertedTotal > 0
        /\ calls[Len(calls)].op = "addDocuments"
        /\ calls[Len(calls)].batch = 2
        /\ StoredBy(b) # <<>>

----------------------------------------------------------------------------
(* RetrieverBuilder.buildChromaRetriever *)

MaxChunks == 2      \* longest chunk list the splitter yields in a retriever build

BuilderId == 0      \* the calls the builder issues itself carry this id
StoreBuild == 1     \* the createChromaStore invocation of the builder

RawSamples == { <<>>, <<Str(<<"a", " ">>)>> }

\* what embedQuery may return to the probe
ProbeSamples == VectorSamples \cup { VecUndefined }

\* the options a retriever build hands on: batch size, reset and filter as
\* the caller sets them, the sub-batch size left at its default
DefaultEmbedSubBatchSize == 32
BuilderOptions ==
    [ collectionName : {DefaultCollection}, batchSize : 1..MaxBatch,
      resetCollection : BOOLEAN, embedSubBatchSize : {DefaultEmbedSubBatchSize},
      preEmbedFilter : BOOLEAN ]
ChunkSamples == { Str(<<"a">>), Str(<<" ">>) }

\* JavaScript truthiness of a value the embedder returned
truthy(vec) ==
    CASE vec.kind = "undefined" -> FALSE
      [] vec.kind = "string" -> vec.elems # <<>>
      [] OTHER -> TRUE

\* a probe that accepts whatever is truthy
testEmbeddingsTruthy(vec) == truthy(vec)

\* lines 54-60: what testEmbeddings answers for the vector embedQuery returned
testEmbeddings(vec) == truthy(vec) /\ Len(vec.elems) > 0

\* a catch that rethrows the error as it came
builderErrorRaw(inner) == inner

\* lines 150-153: the catch of buildChromaRetriever
builderError(inner) == wrap("retriever build failed", 0, 0, inner)

BuilderThrown(message) == [rb EXCEPT !.pc = "thrown", !.error = message]

BuilderCall(op) == Call(BuilderId, op, 0, <<>>)

\* lines 92-97: step 0, the probe; a rejected probe throws outside the try
TestEmbeddings ==
    /\ rb.pc = "probe"
    /\ calls' = Append(calls, BuilderCall("embedQuery"))
    /\ \/ \E vec \in ProbeSamples :
             rb' = IF testEmbeddings(vec)
                   THEN [rb EXCEPT !.testVector = vec, !.pc = "load"]
                   ELSE [BuilderThrown(Cause("embedding model test failed"))
                            EXCEPT !.testVector = vec]
       \/ rb' = [BuilderThrown(Cause("embedding model test failed"))
                    EXCEPT !.probeThrew = TRUE]
    /\ UNCHANGED <<collections, build, graphVars, toolVars, auxVars>>

\* lines 100-103: step 1
LoadDocuments ==
    /\ rb.pc = "load"
    /\ calls' = Append(calls, BuilderCall("loadDocuments"))
    /\ \/ \E rawDocs \in RawSamples : rb' = [rb EXCEPT !.rawDocs = rawDocs, !.pc = "split"]
       \/ rb' = BuilderThrown(builderError(Cause("load error")))
    /\ UNCHANGED <<collections, build, graphVars, toolVars, auxVars>>

\* lines 105-108: step 2; the splitter decides the chunks
SplitDocuments ==
    /\ rb.pc = "split"
    /\ calls' = Append(calls, BuilderCall("splitDocuments"))
    /\ \/ \E splitDocs \in SeqsUpTo(ChunkSamples, MaxChunks), unserializable \in BOOLEAN :
             /\ rb.rawDocs = <<>> => splitDocs = <<>>
             /\ splitDocs = <<>> => ~unserializable
             /\ rb' = [rb EXCEPT !.splitDocs = splitDocs,
                                 !.unserializable = unserializable, !.pc = "sanitize"]
       \/ rb' = BuilderThrown(builderError(Cause("split error")))
    /\ UNCHANGED <<collections, build, graphVars, toolVars, auxVars>>

\* lines 110-112: step 3; JSON.stringify throws on a value it cannot serialise
SanitizeMetadata ==
    /\ rb.pc = "sanitize"
    /\ calls' = Append(calls, BuilderCall("sanitizeMetadata"))
    /\ rb' = IF rb.unserializable
             THEN BuilderThrown(builderError(Cause("JSON.stringify error")))
             ELSE [rb EXCEPT !.sanitizedDocs = rb.splitDocs, !.pc = "report"]
    /\ UNCHANGED <<collections, build, graphVars, toolVars, auxVars>>

\* lines 114-120: step 4
ValidateProcessingIntegrity ==
    /\ rb.pc = "report"
    /\ calls' = Append(calls, BuilderCall("validateProcessingIntegrity"))
    /\ rb' = [rb EXCEPT !.pc = "create"]
    /\ UNCHANGED <<collections, build, graphVars, toolVars, auxVars>>

\* lines 122-128: step 5 enters createChromaStore
CreateStore ==
    /\ rb.pc = "create"
    /\ calls' = Append(calls, BuilderCall("createChromaStore"))
    /\ build' = [build EXCEPT ![StoreBuild] =
                    createChromaStore(StoreBuild, rb.sanitizedDocs, rb.chromaOptions)]
    /\ rb' = [rb EXCEPT !.pc = "creating"]
    /\ UNCHANGED <<collections, graphVars, toolVars, auxVars>>

\* line 124: createChromaStore resolved
StoreReturned ==
    /\ rb.pc = "creating"
    /\ build[StoreBuild].pc = "returned"
    /\ rb' = [rb EXCEPT !.vectorStore = build[StoreBuild].vectorStore, !.pc = "validate"]
    /\ UNCHANGED <<collections, build, calls, graphVars, toolVars, auxVars>>

\* line 124 and lines 150-153: createChromaStore rejected
StoreThrew ==
    /\ rb.pc = "creating"
    /\ build[StoreBuild].pc = "thrown"
    /\ rb' = BuilderThrown(builderError(build[StoreBuild].error))
    /\ UNCHANGED <<collections, build, calls, graphVars, toolVars, auxVars>>

Unknown == -1       \* actualCount: 'unknown'

Report(isValid, actualCount, testQuerySuccess) ==
    [ isValid |-> isValid, expectedCount |-> Len(rb.sanitizedDocs),
      actualCount |-> actualCount, testQuerySuccess |-> testQuerySuccess,
      error |-> NoError ]

\* a catch that reports the failure as a valid store
FailureReportValid(message) ==
    [Report(TRUE, Unknown, FALSE) EXCEPT !.error = message]

\* lines 279-286: the report of the catch
FailureReport(message) ==
    [Report(FALSE, Unknown, FALSE) EXCEPT !.error = message]

\* collectionInfo?.count || 'unknown'
countOrUnknown(count) == IF count = 0 THEN Unknown ELSE count

\* VectorStoreFactory.validateDatabaseIntegrity as called at lines 130-143:
\* every failure ends in a report, none is thrown
ValidateDatabaseIntegrity ==
    /\ rb.pc = "validate"
    /\ LET marked == Append(calls, BuilderCall("validateDatabaseIntegrity"))
           searched == Append(marked, BuilderCall("similaritySearch"))
           c == collections[rb.chromaOptions.collectionName]
           found == c # Absent /\ c # <<>>     \* testQuery.length > 0
       IN
       \/ /\ rb.vectorStore = Undefined      \* reading similaritySearch of undefined throws
          /\ calls' = marked
          /\ rb' = [rb EXCEPT !.dbIntegrity =
                                 FailureReport(Cause("cannot read similaritySearch of undefined")),
                              !.pc = "wrap"]
       \/ /\ rb.vectorStore # Undefined      \* the probe query fails
          /\ calls' = searched
          /\ rb' = [rb EXCEPT !.dbIntegrity = FailureReport(Cause("similaritySearch failed")),
                              !.pc = "wrap"]
       \/ /\ rb.vectorStore # Undefined      \* the handle has no client: ?. yields undefined
          /\ calls' = searched
          /\ rb' = [rb EXCEPT !.dbIntegrity = Report(TRUE, Unknown, found), !.pc = "wrap"]
       \/ /\ rb.vectorStore # Undefined      \* the collection lookup answers
          /\ c # Absent
          /\ calls' = Append(searched, BuilderCall("getCollection"))
          /\ rb' = [rb EXCEPT !.dbIntegrity = Report(TRUE, countOrUnknown(Len(c)), found),
                              !.pc = "wrap"]
       \/ /\ rb.vectorStore # Undefined      \* the collection lookup fails
          /\ calls' = Append(searched, BuilderCall("getCollection"))
          /\ rb' = [rb EXCEPT !.dbIntegrity = FailureReport(Cause("getCollection failed")),
                              !.pc = "wrap"]
    /\ UNCHANGED <<collections, build, graphVars, toolVars, auxVars>>

\* lines 145-149: step 7; asRetriever of undefined throws inside the try
AsRetriever ==
    /\ rb.pc = "wrap"
    /\ calls' = Append(calls, BuilderCall("asRetriever"))
    /\ rb' = IF rb.vectorStore = Undefined
             THEN BuilderThrown(builderError(Cause("cannot read asRetriever of undefined")))
             ELSE [rb EXCEPT !.retriever = rb.vectorStore, !.pc = "returned"]
    /\ UNCHANGED <<collections, build, graphVars, toolVars, auxVars>>

\* a connect that looks the collection up before it answers
ConnectToExistingChecked ==
    /\ rb.pc = "connect"
    /\ calls' = Append(calls, BuilderCall("getCollection"))
    /\ rb' = IF collections[rb.chromaOptions.collectionName] = Absent
             THEN BuilderThrown(wrap("connection failed", 0, 0, Cause("no such collection")))
             ELSE [rb EXCEPT !.vectorStore = StoreHandle(rb.chromaOptions.collectionName),
                             !.retriever = StoreHandle(rb.chromaOptions.collectionName),
                             !.pc = "connected"]
    /\ UNCHANGED <<collections, build, graphVars, toolVars, auxVars>>

\* RetrieverBuilder.connectToExistingRetriever (lines 161-181) with
\* VectorStoreFactory.connectToExistingChroma: the handle is constructed
\* locally and wrapped; a constructor that throws is rethrown wrapped
ConnectToExistingRetriever ==
    /\ rb.pc = "connect"
    /\ \/ rb' = [rb EXCEPT !.vectorStore = StoreHandle(rb.chromaOptions.collectionName),
                           !.retriever = StoreHandle(rb.chromaOptions.collectionName),
                           !.pc = "connected"]
       \/ rb' = BuilderThrown(wrap("connection failed", 0, 0, Cause("misconfigured")))
    /\ UNCHANGED <<collections, calls, build, graphVars, toolVars, auxVars>>

\* one buildChromaRetriever or connectToExistingRetriever call, any options,
\* any prior collection
InitBuilder ==
    /\ \E options \in BuilderOptions, entry \in {"probe", "connect"} :
          rb = [IdleBuilder EXCEPT !.pc = entry, !.chromaOptions = options,
                                   !.mode = IF entry = "probe" THEN "build" ELSE "connect"]
    /\ build = [b \in {StoreBuild} |-> IdleBuild]
    /\ collections \in [CollectionNames -> {Absent, <<OldItem>>}]
    /\ calls = <<>>
    /\ checkpoints = <<>>
    /\ usedIds = {}
    /\ turn = NoTurn
    /\ ragCheckpoints = <<>>
    /\ ragTurn = NoRagTurn
    /\ san = Idle
    /\ stream = Idle
    /\ cli = Idle
    /\ tr = Idle
    /\ clean = IdleClean

NextBuilder ==
    \/ TestEmbeddings
    \/ LoadDocuments
    \/ SplitDocuments
    \/ SanitizeMetadata
    \/ ValidateProcessingIntegrity
    \/ CreateStore
    \/ StoreStep(StoreBuild)
    \/ StoreReturned
    \/ StoreThrew
    \/ ValidateDatabaseIntegrity
    \/ AsRetriever
    \/ ConnectToExistingRetriever

SpecBuilder == InitBuilder /\ [][NextBuilder]_vars

----------------------------------------------------------------------------
(* Properties of buildChromaRetriever *)

BuilderOps(ops) == { k \in 1..Len(calls) : calls[k].b = BuilderId /\ calls[k].op \in ops }

\* C8: the probe embedQuery is the first thing a build does and it is done
\* once; when it throws or returns an empty vector, the build has failed and
\* the probe is the only call ever made: no load, no deleteCollection, no
\* embedDocuments, no insert, and createChromaStore is never entered.
C8_ProbeFirstAndFatal ==
    /\ calls # <<>> => (calls[1].b = BuilderId /\ calls[1].op = "embedQuery")
    /\ Cardinality(BuilderOps({"embedQuery"})) <= 1
    /\ (BuilderOps({"embedQuery"}) # {} /\ (rb.probeThrew \/ rb.testVector.elems = <<>>))
          => /\ rb.pc = "thrown"
             /\ Len(calls) = 1
             /\ build[StoreBuild].pc = "idle"

C8_Witness ==
    /\ rb.pc = "thrown"
    /\ rb.testVector = VecEmpty
    /\ ~rb.probeThrew
    /\ Len(calls) = 1

StageOrder ==
    << "loadDocuments", "splitDocuments", "sanitizeMetadata", "validateProcessingIntegrity",
       "createChromaStore", "validateDatabaseIntegrity", "asRetriever" >>

StageOps == { StageOrder[k] : k \in 1..Len(StageOrder) }

\* the stages started so far, in order
Stages ==
    LET own == SelectSeq(calls, LAMBDA c : c.b = BuilderId /\ c.op \in StageOps)
    IN  [k \in 1..Len(own) |-> own[k].op]

\* C9: the stages started are always an initial part of load, split,
\* sanitize, report, create store, validate, wrap (each at most once, in this
\* order) and a build that returns has run them all; every call of
\* createChromaStore lies after the create-store stage began, validation
\* begins only once createChromaStore has returned and no store call follows
\* it; a build that failed in or after load threw a wrapped error.
C9_StagesInOrder ==
    /\ Len(Stages) <= Len(StageOrder)
    /\ Stages = SubSeq(StageOrder, 1, Len(Stages))
    /\ rb.pc = "returned" => Stages = StageOrder
    /\ \A k \in 1..Len(calls) :
          calls[k].b = StoreBuild =>
             /\ \E j \in BuilderOps({"createChromaStore"}) : j < k
             /\ \A j \in BuilderOps({"validateDatabaseIntegrity", "asRetriever"}) : k < j
    /\ BuilderOps({"validateDatabaseIntegrity"}) # {} => build[StoreBuild].pc = "returned"
    /\ (rb.pc = "thrown" /\ Stages # <<>>)
          => /\ rb.error[1].text = "retriever build failed"
             /\ Stages[Len(Stages)] = "createChromaStore" => build[StoreBuild].pc = "thrown"

C9_Witness ==
    /\ rb.pc = "returned"
    /\ Stages = StageOrder
    /\ \E k \in 1..Len(calls) : calls[k].op = "addDocuments"
    /\ rb.dbIntegrity.isValid

\* validateDatabaseIntegrity has answered
Validated == rb.pc \in {"wrap", "returned"} \/
             (rb.pc = "thrown" /\ BuilderOps({"validateDatabaseIntegrity"}) # {})

\* C18: validateDatabaseIntegrity always answers with a report.  A failed
\* probe query or collection lookup, or an undefined store handle, gives a
\* report with isValid false and the error message, and no other report is
\* invalid.  Whatever the report says, the build goes on to asRetriever; a
\* build with an invalid report and a defined store returns its retriever.
C18_ValidationNeverThrows ==
    /\ [](Validated =>
            /\ rb.dbIntegrity.isValid <=> rb.dbIntegrity.error = <<>>
            /\ rb.vectorStore = Undefined => ~rb.dbIntegrity.isValid
            /\ \E k \in BuilderOps({"validateDatabaseIntegrity"}) :
                  \A j \in BuilderOps({"similaritySearch", "getCollection"}) : k < j)
    /\ [][ /\ rb.pc = "validate" => rb'.pc = "wrap"
           /\ rb.pc = "wrap" =>
                 /\ calls' = Append(calls, BuilderCall("asRetriever"))
                 /\ rb.vectorStore # Undefined => rb'.pc = "returned"
         ]_vars

C18_Witness ==
    /\ rb.pc = "returned"
    /\ ~rb.dbIntegrity.isValid
    /\ rb.dbIntegrity.error = <<[text |-> "similaritySearch failed", batch |-> 0, sub |-> 0]>>
    /\ rb.retriever # Undefined

\* C20: connecting to an existing collection changes nothing on the server
\* and calls nothing: while and after connectToExistingRetriever runs no
\* load, split, embedder, deleteCollection or insert call has been made,
\* createChromaStore is not entered and every collection is as it was; the
\* connect step does not depend on the collection: it makes no call that
\* could tell whether the collection exists.
C20_ConnectLeavesStoreUnchanged ==
    /\ [](rb.mode = "connect" =>
            /\ calls = <<>>
            /\ build[StoreBuild].pc = "idle"
            /\ rb.pc \in {"connect", "connected", "thrown"}
            /\ rb.pc = "connected" => rb.retriever # Undefined)
    /\ [][ rb.pc = "connect" =>
             /\ calls' = calls
             /\ \A name \in CollectionNames :
                   IF collections[name] = Absent THEN collections'[name] = Absent
                   ELSE collections'[name] # Absent /\ collections'[name] = collections[name]
         ]_vars

C20_Witness ==
    /\ rb.mode = "connect"
    /\ rb.pc = "connected"
    /\ collections[rb.chromaOptions.collectionName] = Absent
    /\ rb.retriever = [t |-> "Chroma", s |-> <<DefaultCollection>>]
    /\ calls = <<>>

\* C19: once validation has answered with a server-reported count that
\* differs from expectedCount, the report is not marked valid.
C19_MismatchNotValid ==
    (Validated /\ rb.dbIntegrity.actualCount # Unknown
               /\ rb.dbIntegrity.actualCount # rb.dbIntegrity.expectedCount)
        => ~rb.dbIntegrity.isValid

----------------------------------------------------------------------------
(* The conversation graph: app = workflow.compile({checkpointer: MemorySaver}) *)

MaxTurns == 3       \* how many turns are run

maxTokens == 1000   \* the budget of the trimmer

ThreadIds == { "t1", "t2", "t3" }
NoThreadId == { "undefined", "null" }     \* what ?? replaces by a minted id
Texts == { "hi", "yo" }                   \* what a user may send
Replies == { "ok" }                       \* what the chat capability may answer

\* String.prototype.repeat
RECURSIVE repeat(_, _)
repeat(text, count) ==
    IF count = 0 THEN ""
    ELSE LET half == repeat(text, count \div 2)
         IN  half \o half \o (IF count % 2 = 1 THEN text ELSE "")

\* long texts a user may send: one line of 1500 characters (500 tokens), one
\* of 3003 (1001 tokens), and two lines of 2000 and 1501 characters
LongLine == repeat("0123456789", 150)
HugeLine == LongLine \o LongLine \o "012"
TwoLines == repeat("0123456789", 200) \o "\n" \o "x" \o LongLine
TrimTexts == { "hi", LongLine, HugeLine, TwoLines }

\* the default textSplitter of trimMessages: the lines of a text, each but
\* the last with its line break
splitLines(content) ==
    IF content = TwoLines THEN <<repeat("0123456789", 200) \o "\n", "x" \o LongLine>>
    ELSE <<content>>

\* a message; `origin` records the thread the message was submitted to or
\* produced for (it is not read by the program)
Message(role, content, thread) == [role |-> role, content |-> content, origin |-> thread]

\* the tokenCounter of the trimmer: the contents joined by " ", a third of the length, rounded up
tokenCounter(msgs) ==
    LET F[k \in 0..Len(msgs)] ==
            IF k = 0 THEN 0 ELSE F[k - 1] + Len(msgs[k].content) + (IF k > 1 THEN 1 ELSE 0)
    IN  (F[Len(msgs)] + 2) \div 3

\* a trimmer that keeps the latest message only
trimmerLatestOnly(messages) == SubSeq(messages, Len(messages), Len(messages))

\* trimMessages with strategy "last" and allowPartial: the longest run of
\* most recent messages that fits the budget; then, unless the first message
\* left out is the oldest of the log, the most ending lines of it that still fit
trimmer(messages) ==
    LET n == Len(messages)
        last(j) == SubSeq(messages, n - j + 1, n)
        fits == { j \in 1..n : tokenCounter(last(j)) <= maxTokens }
        idx == IF fits = {} THEN 0 ELSE CHOOSE j \in fits : \A i \in fits : i <= j
    IN  IF idx < n - 1
        THEN LET excluded == messages[n - idx]
                 lines == splitLines(excluded.content)
                 partial(k) ==
                     [excluded EXCEPT !.content = join(SubSeq(lines, k, Len(lines)))]
                 tails == { k \in 2..Len(lines) :
                              tokenCounter(<<partial(k)>> \o last(idx)) <= maxTokens }
             IN  IF tails = {} THEN last(idx)
                 ELSE <<partial(CHOOSE k \in tails : \A i \in tails : k <= i)>> \o last(idx)
        ELSE last(idx)

\* a checkpointer that answers with the longest history it holds, whatever the thread
getStateAnyThread(threadId) ==
    checkpoints[CHOOSE t \in ThreadIds : \A u \in ThreadIds :
                    Len(checkpoints[u]) <= Len(checkpoints[t])]

\* the state MemorySaver holds for a thread id; nothing for an id never used
getState(threadId) == checkpoints[threadId]

\* a key that may be any id when none is supplied, a used one included
keyedByAny(threadId, id) == threadId \notin NoThreadId => id = threadId

\* threadId ?? uuidv4(): the id a run is keyed by, for the id supplied; a
\* minted id is one never used before
keyedBy(threadId, id) ==
    IF threadId \in NoThreadId THEN id \notin usedIds ELSE id = threadId

\* runTime up to the node: thread_id = threadId ?? uuidv4(), the inbound
\* message is appended to the state loaded for that id and checkpointed
RunTime(userText, threadId) ==
    /\ turn.pc = "idle"
    /\ turn.n < MaxTurns
    /\ \E id \in ThreadIds :
          /\ keyedBy(threadId, id)
          /\ LET messages == Append(getState(id), Message("user", userText, id)) IN
             /\ checkpoints' = [checkpoints EXCEPT ![id] = messages]
             /\ turn' = [ pc |-> "model", n |-> turn.n + 1, supplied |-> threadId,
                          thread |-> id, fresh |-> id \notin usedIds,
                          messages |-> messages, prompt |-> <<>>, outcome |-> "none",
                          reply |-> "" ]
          /\ usedIds' = usedIds \cup {id}
    /\ UNCHANGED <<collections, build, calls, builderVars, toolVars, auxVars, ragCheckpoints, ragTurn>>

\* the node `model` (callModel) and the rest of runTime: the trimmed history
\* goes to the chat capability; its answer is appended and returned, its
\* failure reaches the caller
CallModel ==
    /\ turn.pc = "model"
    /\ LET trimmed == trimmer(turn.messages) IN
       \/ \E content \in Replies :
             LET output == Append(turn.messages, Message("assistant", content, turn.thread)) IN
             /\ checkpoints' = [checkpoints EXCEPT ![turn.thread] = output]
             /\ turn' = [turn EXCEPT !.pc = "idle", !.prompt = trimmed,
                                     !.outcome = "returned",
                                     !.reply = output[Len(output)].content]
       \/ /\ turn' = [turn EXCEPT !.pc = "idle", !.prompt = trimmed, !.outcome = "thrown"]
          /\ UNCHANGED checkpoints
    /\ UNCHANGED <<usedIds, collections, build, calls, builderVars, toolVars, auxVars,
                   ragCheckpoints, ragTurn>>

InitGraph ==
    /\ checkpoints = [t \in ThreadIds |-> <<>>]
    /\ usedIds = {}
    /\ turn = NoTurn
    /\ ragCheckpoints = [t \in ThreadIds |-> <<>>]
    /\ ragTurn = NoRagTurn
    /\ san = Idle
    /\ stream = Idle
    /\ cli = Idle
    /\ tr = Idle
    /\ clean = IdleClean
    /\ collections = [name \in CollectionNames |-> Absent]
    /\ build = [b \in {StoreBuild} |-> IdleBuild]
    /\ calls = <<>>
    /\ rb = IdleBuilder

NextGraph ==
    \/ \E userText \in Texts, threadId \in ThreadIds \cup NoThreadId : RunTime(userText, threadId)
    \/ CallModel

SpecGraph == InitGraph /\ [][NextGraph]_vars

\* turns of one thread whose texts may exceed the budget of the trimmer
NextTrim ==
    \/ \E userText \in TrimTexts : RunTime(userText, "t1")
    \/ CallModel

SpecTrim == InitGraph /\ [][NextTrim]_vars

----------------------------------------------------------------------------
(* The RAG graph: ragApp = ragWorkflow.compile({checkpointer: MemorySaver}) *)

MaxMixedTurns == 2  \* how many turns are run when both graphs are in use

\* a nullish value and a string value of the chain's result
Nullish == <<>>
Text(t) == <<t>>

\* what ragChain.invoke may resolve to: its answer and output_text members
ResultSamples ==
    { [answer |-> Text("ok"), output_text |-> Nullish],
      [answer |-> Text(""), output_text |-> Nullish],
      [answer |-> Nullish, output_text |-> Text("out")],
      [answer |-> Nullish, output_text |-> Nullish] }

\* what the retriever may return: no document, or some
RetrievedSamples == { "empty", "some" }

NotFoundReply == "no relevant information found"
RagErrorPrefix == "RAG retrieval failed: "

\* a ?? b
coalesce(a, b) == IF a # Nullish THEN a ELSE b

\* a reply that falls back on every falsy member (||), the empty string included
replyOfTruthy(result) ==
    IF result.answer \notin {Nullish, Text("")} THEN result.answer[1]
    ELSE IF result.output_text \notin {Nullish, Text("")} THEN result.output_text[1]
    ELSE NotFoundReply

\* line 154: result?.answer ?? result?.output_text ?? the not-found message
replyOf(result) ==
    coalesce(result.answer, coalesce(result.output_text, Text(NotFoundReply)))[1]

\* a catch that reports without the cause
errorReplyBare(message) == RagErrorPrefix

\* lines 163-170: the content of the message the catch returns
errorReply(message) == RagErrorPrefix \o message

\* a reducer that keeps the update only
replaceMessages(state, update) == update

\* the reducer of MessagesAnnotation: the update is appended to the state
addMessages(state, update) == state \o update

\* the edges of ragWorkflow: START -> ragModel -> END
ragEdge(node) ==
    CASE node = "START" -> "ragModel"
      [] node = "ragModel" -> "END"

\* a RAG checkpointer that is the plain graph's
getRagStateShared(threadId) == checkpoints[threadId]

\* the state ragApp's MemorySaver holds for a thread id
getRagState(threadId) == ragCheckpoints[threadId]

\* runRAG up to the node: thread_id = threadId ?? uuidv4(), the inbound
\* message is added to the state loaded for that id and checkpointed
RunRAG(userText, threadId) ==
    /\ ragTurn.pc = "idle"
    /\ turn.pc = "idle"
    /\ turn.n + ragTurn.n < MaxMixedTurns
    /\ \E id \in ThreadIds :
          /\ keyedBy(threadId, id)
          /\ LET before == getRagState(id)
                 messages == addMessages(before, <<Message("user", userText, id)>>) IN
             /\ ragCheckpoints' = [ragCheckpoints EXCEPT ![id] = messages]
             /\ ragTurn' = [ pc |-> ragEdge("START"), n |-> ragTurn.n + 1,
                             supplied |-> threadId, thread |-> id,
                             fresh |-> id \notin usedIds, before |-> before,
                             messages |-> messages, input |-> "", chat_history |-> <<>>,
                             retrieved |-> "none", generations |-> 0,
                             result |-> <<>>, error |-> "",
                             outcome |-> "none", reply |-> "",
                             earlier |-> IF ragTurn.n = 0 THEN <<>>
                                         ELSE Append(ragTurn.earlier, ragTurn.thread) ]
          /\ usedIds' = usedIds \cup {id}
    /\ UNCHANGED <<collections, build, calls, builderVars, toolVars, auxVars, checkpoints, turn>>

\* the rest of the run once the node has produced its message: the message is
\* added to the state and checkpointed, runRAG returns the last content
ragReturn(userInput, chatHistory, retrieved, generations, result, error, content) ==
    LET output == addMessages(ragTurn.messages,
                              <<Message("assistant", content, ragTurn.thread)>>) IN
    /\ ragCheckpoints' = [ragCheckpoints EXCEPT ![ragTurn.thread] = output]
    /\ ragTurn' = [ragTurn EXCEPT !.pc = IF ragEdge("ragModel") = "END" THEN "idle"
                                         ELSE ragEdge("ragModel"),
                                   !.input = userInput, !.chat_history = chatHistory,
                                   !.retrieved = retrieved, !.generations = generations,
                                   !.result = result, !.error = error,
                                   !.outcome = "returned",
                                   !.reply = output[Len(output)].content]

\* the node `ragModel` (callRAGModel) and the rest of runRAG: the last
\* message is the query, the others the chat history; the chain retrieves,
\* then generates; whatever the chain throws becomes the reply
CallRAGModel ==
    /\ ragTurn.pc = "ragModel"
    /\ LET lastMessage == ragTurn.messages[Len(ragTurn.messages)]
           userInput == lastMessage.content
           chatHistory == slice(ragTurn.messages, 0, Len(ragTurn.messages) - 1)
       IN
       \/ \* the retriever rejects: generation is not reached
          ragReturn(userInput, chatHistory, "threw", 0, <<>>, "retrieval error",
                    errorReply("retrieval error"))
       \/ \E retrieved \in RetrievedSamples :
             \/ \E result \in ResultSamples :
                   ragReturn(userInput, chatHistory, retrieved, 1, <<result>>, "", replyOf(result))
             \/ \* the chat capability rejects
                ragReturn(userInput, chatHistory, retrieved, 1, <<>>, "generation error",
                          errorReply("generation error"))
    /\ UNCHANGED <<usedIds, collections, build, calls, builderVars, toolVars, auxVars, checkpoints, turn>>

\* a plain-chat turn started while no RAG turn is in flight
RunTimeMixed(userText, threadId) ==
    /\ ragTurn.pc = "idle"
    /\ turn.n + ragTurn.n < MaxMixedTurns
    /\ RunTime(userText, threadId)

InitChat == InitGraph

NextChat ==
    \/ \E userText \in Texts, threadId \in ThreadIds \cup NoThreadId :
          RunTimeMixed(userText, threadId)
    \/ CallModel
    \/ \E userText \in Texts, threadId \in ThreadIds \cup NoThreadId : RunRAG(userText, threadId)
    \/ CallRAGModel

SpecChat == InitChat /\ [][NextChat]_vars

----------------------------------------------------------------------------
(* Properties of the conversation graph *)

\* C10: the messages the node receives in a turn on thread T were all
\* submitted to or produced for T, and so is everything checkpointed under T;
\* a turn on a thread id never used before receives the new inbound message
\* and nothing else.
C10_ThreadIsolation ==
    /\ \A t \in ThreadIds : \A k \in 1..Len(checkpoints[t]) : checkpoints[t][k].origin = t
    /\ turn.n > 0 =>
          /\ \A k \in 1..Len(turn.messages) : turn.messages[k].origin = turn.thread
          /\ turn.fresh => /\ Len(turn.messages) = 1
                           /\ turn.messages[1].role = "user"

C10_Witness ==
    /\ turn.pc = "model"
    /\ turn.fresh
    /\ turn.n = 3
    /\ \E t, u \in ThreadIds \ {turn.thread} : t # u /\ Len(checkpoints[t]) = 2 /\ Len(checkpoints[u]) = 1

----------------------------------------------------------------------------
(* The cleaning tool: clean_vector_db.js and VectorStoreFactory.cleanChromaCollection *)

CleanId == 2        \* the calls of the cleaning tool carry this id

OtherCollection == "other-docs"
CleanNames == { DefaultCollection, OtherCollection }

\* the collections the server holds
Existing == { name \in DOMAIN collections : collections[name] # Absent }

\* a clean that counts a missing collection as a failure
cleanResultStrict(outcome) == outcome = "deleted"

\* lines 210-226: the boolean cleanChromaCollection returns for what happened
\* to its deleteCollection call (or to the construction of the client)
cleanResult(outcome) ==
    CASE outcome = "deleted" -> TRUE
      [] outcome = "does not exist" -> TRUE       \* error.message.includes('does not exist')
      [] outcome = "other failure" -> FALSE
      [] outcome = "invalid URL" -> FALSE

bool(b) == IF b THEN "true" ELSE "false"

\* main, lines 26-35: list the collections; nothing to clean when none is listed
\* (listChromaCollections answers [] for every failure, a bad URL included)
ListChromaCollections ==
    /\ clean.pc = "list"
    /\ \E ok \in BOOLEAN :
          /\ ok => clean.validUrl
          /\ calls' = IF clean.validUrl
                      THEN Append(calls, Call(CleanId, "listCollections", 0, <<>>))
                      ELSE calls
          /\ LET listed == IF ok THEN Cardinality(Existing) ELSE 0 IN
             clean' = [clean EXCEPT !.listed = listed,
                                    !.pc = IF listed = 0 THEN "done" ELSE "clean",
                                    !.exitCode = IF listed = 0 THEN 0 ELSE @]
    /\ UNCHANGED <<collections, build, builderVars, graphVars, auxVars>>

\* where cleanChromaCollection returns to
afterClean(outcome) ==
    [clean EXCEPT !.outcome = outcome, !.result = bool(cleanResult(outcome)),
                  !.pc = IF clean.entry = "main" THEN "report" ELSE "done"]

\* VectorStoreFactory.cleanChromaCollection, lines 194-227
CleanChromaCollection ==
    /\ clean.pc = "clean"
    /\ LET name == clean.collectionName
           called == Append(calls, Call(CleanId, "deleteCollection", 0, <<>>))
       IN
       \/ /\ ~clean.validUrl                    \* new URL throws: outer catch
          /\ clean' = afterClean("invalid URL")
          /\ UNCHANGED <<collections, calls>>
       \/ /\ clean.validUrl
          /\ collections[name] # Absent
          /\ calls' = called
          /\ collections' = [collections EXCEPT ![name] = Absent]
          /\ clean' = afterClean("deleted")
       \/ /\ clean.validUrl
          /\ collections[name] = Absent
          /\ calls' = called
          /\ clean' = afterClean("does not exist")
          /\ UNCHANGED collections
       \/ /\ clean.validUrl                     \* the server or the network fails
          /\ calls' = called
          /\ clean' = afterClean("other failure")
          /\ UNCHANGED collections
    /\ UNCHANGED <<build, builderVars, graphVars, auxVars>>

\* main, lines 44-54: exit code 1 when the clean failed
ReportCleaned ==
    /\ clean.pc = "report"
    /\ clean' = [clean EXCEPT !.pc = "done",
                              !.exitCode = IF clean.result = "true" THEN 0 ELSE 1]
    /\ UNCHANGED <<collections, calls, build, builderVars, graphVars, auxVars>>

\* the tool is run on the default collection, or cleanChromaCollection is
\* called with any options, against any server state
InitClean ==
    /\ collections \in [CleanNames -> {Absent, <<>>, <<OldItem>>}]
    /\ \E validUrl \in BOOLEAN :
          \/ clean = [IdleClean EXCEPT !.pc = "list", !.entry = "main", !.validUrl = validUrl]
          \/ \E name \in CleanNames :
                clean = [IdleClean EXCEPT !.pc = "clean", !.entry = "direct",
                                          !.collectionName = name, !.validUrl = validUrl]
    /\ calls = <<>>
    /\ build = [b \in {StoreBuild} |-> IdleBuild]
    /\ rb = IdleBuilder
    /\ checkpoints = <<>>
    /\ usedIds = {}
    /\ turn = NoTurn
    /\ ragCheckpoints = <<>>
    /\ ragTurn = NoRagTurn
    /\ san = Idle
    /\ stream = Idle
    /\ cli = Idle
    /\ tr = Idle

NextClean ==
    \/ ListChromaCollections
    \/ CleanChromaCollection
    \/ ReportCleaned

SpecClean == InitClean /\ [][NextClean]_vars

----------------------------------------------------------------------------
(* Properties of the cleaning tool *)

CleanDeletes == { k \in 1..Len(calls) :
                    calls[k].b = CleanId /\ calls[k].op = "deleteCollection" }

\* C17: cleanChromaCollection always returns a boolean: true when its
\* deleteCollection call deleted the collection or failed because there was
\* none, false when the call failed otherwise or the URL could not be parsed;
\* it calls deleteCollection at most once, and no step of it changes a
\* collection other than the named one.
C17_CleanReturnsBoolean ==
    /\ [](/\ Cardinality(CleanDeletes) <= 1
          /\ clean.pc \in {"report", "done"} /\ clean.outcome # "none" =>
                /\ clean.result \in {"true", "false"}
                /\ clean.result = "true" <=> clean.outcome \in {"deleted", "does not exist"}
                /\ clean.outcome = "invalid URL" => CleanDeletes = {}
                /\ clean.outcome = "deleted" => collections[clean.collectionName] = Absent)
    /\ [][ /\ \A name \in CleanNames \ {clean.collectionName} :
                 IF collections[name] = Absent THEN collections'[name] = Absent
                 ELSE collections'[name] # Absent /\ collections'[name] = collections[name]
           /\ (clean.pc = "clean" /\ collections[clean.collectionName] = Absent
                 /\ clean'.outcome # "invalid URL" /\ clean'.outcome # "other failure")
                 => clean'.result = "true"
           /\ (collections[clean.collectionName] # Absent
                 /\ collections'[clean.collectionName] = Absent) => clean'.result = "true"
         ]_vars

C17_Witness ==
    /\ clean.pc = "done"
    /\ clean.entry = "direct"
    /\ clean.collectionName = OtherCollection
    /\ clean.outcome = "does not exist"
    /\ clean.result = "true"
    /\ collections[DefaultCollection] = <<OldItem>>
    /\ Cardinality(CleanDeletes) = 1

----------------------------------------------------------------------------
(* Properties of the two graphs together *)

\* the log `log` is `prev` followed by exactly one message of the given role
Extends(log, prev, role) ==
    /\ Len(log) = Len(prev) + 1
    /\ SubSeq(log, 1, Len(prev)) = prev
    /\ log[Len(log)].role = role

\* C12: a run enters its single node, the node runs once and the run ends
\* (START -> model -> END, START -> ragModel -> END); starting a run on
\* thread T appends the inbound user message to T's log, the node's step of
\* a run that returns appends the assistant reply, nothing else touches any
\* log, and the reply returned is the content of the last message of T's log.
\* So a successful run leaves the previous log with exactly two messages
\* appended, user then assistant.
C12_OneNodeTwoAppended ==
    /\ [](/\ turn.pc \in {"idle", "model"}
          /\ ragTurn.pc \in {"idle", "ragModel"}
          /\ (ragTurn.pc = "idle" /\ ragTurn.outcome = "returned") =>
                /\ Extends(ragCheckpoints[ragTurn.thread], ragTurn.messages, "assistant")
                /\ Extends(ragTurn.messages, ragTurn.before, "user")
                /\ ragTurn.reply = ragCheckpoints[ragTurn.thread]
                                      [Len(ragCheckpoints[ragTurn.thread])].content)
    /\ [][ /\ turn.pc = "model" => turn'.pc = "idle" /\ turn'.n = turn.n
           /\ ragTurn.pc = "ragModel" => ragTurn'.pc = "idle" /\ ragTurn'.n = ragTurn.n
           /\ (turn.pc = "idle" /\ turn' # turn) =>
                 /\ turn'.pc = "model" /\ turn'.n = turn.n + 1
                 /\ Extends(checkpoints'[turn'.thread], checkpoints[turn'.thread], "user")
                 /\ \A t \in ThreadIds \ {turn'.thread} : checkpoints'[t] = checkpoints[t]
           /\ (ragTurn.pc = "idle" /\ ragTurn' # ragTurn) =>
                 /\ ragTurn'.pc = "ragModel" /\ ragTurn'.n = ragTurn.n + 1
                 /\ Extends(ragCheckpoints'[ragTurn'.thread],
                            ragCheckpoints[ragTurn'.thread], "user")
                 /\ \A t \in ThreadIds \ {ragTurn'.thread} :
                       ragCheckpoints'[t] = ragCheckpoints[t]
           /\ (turn.pc = "model" /\ turn'.outcome = "returned") =>
                 /\ Extends(checkpoints'[turn.thread], checkpoints[turn.thread], "assistant")
                 /\ \A t \in ThreadIds \ {turn.thread} : checkpoints'[t] = checkpoints[t]
                 /\ turn'.reply = checkpoints'[turn.thread]
                                     [Len(checkpoints'[turn.thread])].content
           /\ (turn.pc = "model" /\ turn'.outcome # "returned") => checkpoints' = checkpoints
           /\ ragTurn.pc = "ragModel" =>
                 /\ Extends(ragCheckpoints'[ragTurn.thread],
                            ragCheckpoints[ragTurn.thread], "assistant")
                 /\ \A t \in ThreadIds \ {ragTurn.thread} :
                       ragCheckpoints'[t] = ragCheckpoints[t]
           /\ (turn.pc = "idle" /\ turn' = turn) => checkpoints' = checkpoints
           /\ (ragTurn.pc = "idle" /\ ragTurn' = ragTurn) => ragCheckpoints' = ragCheckpoints
         ]_vars

C12_Witness ==
    /\ ragTurn.pc = "idle" /\ ragTurn.outcome = "returned" /\ turn.outcome = "returned"
    /\ turn.pc = "idle"
    /\ turn.thread = ragTurn.thread
    /\ Len(checkpoints[turn.thread]) = 2
    /\ Len(ragCheckpoints[ragTurn.thread]) = 2
    /\ ragTurn.reply = "ok"

\* the RAG turn on record has run its node
RagDone == ragTurn.n > 0 /\ ragTurn.pc = "idle"

\* C13: a RAG run never ends in an exception.  When retrieval or generation
\* threw, the thread's log is the log before the turn, the user message and
\* an assistant message whose content carries the error message; and every
\* finished RAG turn, one that follows a failed turn on the same thread
\* included, has its user message and its reply appended to the log it found.
C13_RagFailureRecovered ==
    /\ ragTurn.outcome \in {"none", "returned"}
    /\ RagDone =>
          LET log == ragCheckpoints[ragTurn.thread]
              k == Len(ragTurn.before)
          IN  /\ ragTurn.outcome = "returned"
              /\ Len(log) = k + 2
              /\ SubSeq(log, 1, k) = ragTurn.before
              /\ log[k + 1].role = "user"
              /\ log[k + 2].role = "assistant"
              /\ log[k + 2].content = ragTurn.reply
              /\ ragTurn.error # "" => log[k + 2].content = "RAG retrieval failed: " \o ragTurn.error

C13_Witness ==
    /\ RagDone
    /\ ragTurn.n = 2
    /\ ragTurn.error = ""
    /\ ragTurn.reply = "ok"
    /\ Len(ragTurn.before) = 2
    /\ ragTurn.before[2].content = "RAG retrieval failed: retrieval error"
    /\ Len(ragCheckpoints[ragTurn.thread]) = 4

\* C14: every finished turn, plain chat or RAG, has returned to its caller
\* and left an assistant message as the last message of its thread.
C14_EveryTurnRecovered ==
    /\ (turn.n > 0 /\ turn.pc = "idle") =>
          /\ turn.outcome = "returned"
          /\ checkpoints[turn.thread][Len(checkpoints[turn.thread])].role = "assistant"
    /\ RagDone =>
          /\ ragTurn.outcome = "returned"
          /\ ragCheckpoints[ragTurn.thread][Len(ragCheckpoints[ragTurn.thread])].role
                = "assistant"

\* C15: in every RAG run the query handed to the chain is the content of the
\* last message of the thread's log (the inbound message) and the chat
\* history is every message before it, in order: exactly the log the run
\* found.  The history is empty exactly when no earlier RAG run used the
\* thread id.
C15_QueryAndHistory ==
    RagDone =>
       LET log == ragCheckpoints[ragTurn.thread]
           n == Len(log) - 1          \* the log the node received is log[1..n]
       IN  /\ n >= 1
           /\ ragTurn.input = log[n].content
           /\ log[n].role = "user"
           /\ ragTurn.chat_history = SubSeq(log, 1, n - 1)
           /\ ragTurn.chat_history = ragTurn.before
           /\ (ragTurn.chat_history = <<>>) <=>
                  (\A k \in 1..Len(ragTurn.earlier) : ragTurn.earlier[k] # ragTurn.thread)

C15_Witness ==
    /\ RagDone
    /\ ragTurn.n = 2
    /\ ragTurn.earlier = <<ragTurn.thread>>
    /\ Len(ragTurn.chat_history) = 2
    /\ ragTurn.chat_history[1].content = "hi"
    /\ ragTurn.chat_history[2].content = "out"
    /\ ragTurn.input = "yo"

\* C16: a RAG run whose retriever returned no document still calls the chat
\* capability once and ends with an assistant message appended to the thread,
\* never with an exception; the reply is the chain's answer when it has one,
\* and the not-found message when the chain yields neither an answer nor an
\* output text.
C16_EmptyRetrievalStillAnswers ==
    RagDone =>
       LET log == ragCheckpoints[ragTurn.thread] IN
       /\ ragTurn.retrieved = "empty" =>
             /\ ragTurn.generations = 1
             /\ ragTurn.outcome = "returned"
             /\ log[Len(log)].role = "assistant"
             /\ log[Len(log)].content = ragTurn.reply
       /\ ragTurn.result # <<>> =>
             /\ ragTurn.result[1].answer # <<>> => ragTurn.reply = ragTurn.result[1].answer[1]
             /\ (ragTurn.result[1].answer = <<>> /\ ragTurn.result[1].output_text = <<>>)
                   => ragTurn.reply = "no relevant information found"

C16_Witness ==
    /\ RagDone
    /\ ragTurn.retrieved = "empty"
    /\ ragTurn.generations = 1
    /\ ragTurn.result = <<[answer |-> <<>>, output_text |-> <<>>]>>
    /\ ragTurn.reply = "no relevant information found"
    /\ Len(ragCheckpoints[ragTurn.thread]) = 2

\* C21: a run of runTime or runRAG that was given a thread id is keyed by
\* that id, which is the id it returns; a run given none (undefined or null)
\* is keyed by, and returns, an id that no earlier run used or minted, and it
\* starts from an empty history; the inbound message is persisted under the
\* id returned, so that a later run given this id continues from it.
C21_ThreadIdKeying ==
    /\ [](/\ turn.n > 0 =>
               /\ turn.thread \in usedIds
               /\ turn.supplied \notin {"undefined", "null"} => turn.thread = turn.supplied
               /\ turn.supplied \in {"undefined", "null"} => turn.fresh
               /\ turn.fresh => Len(turn.messages) = 1
          /\ ragTurn.n > 0 =>
               /\ ragTurn.thread \in usedIds
               /\ ragTurn.supplied \notin {"undefined", "null"} =>
                     ragTurn.thread = ragTurn.supplied
               /\ ragTurn.supplied \in {"undefined", "null"} => ragTurn.fresh
               /\ ragTurn.fresh => ragTurn.before = <<>>)
    /\ [][ /\ turn'.n # turn.n =>
                /\ turn'.fresh <=> turn'.thread \notin usedIds
                /\ Extends(checkpoints'[turn'.thread], checkpoints[turn'.thread], "user")
                /\ turn'.messages = checkpoints'[turn'.thread]
           /\ ragTurn'.n # ragTurn.n =>
                /\ ragTurn'.fresh <=> ragTurn'.thread \notin usedIds
                /\ Extends(ragCheckpoints'[ragTurn'.thread],
                           ragCheckpoints[ragTurn'.thread], "user")
                /\ ragTurn'.messages = ragCheckpoints'[ragTurn'.thread]
           /\ usedIds \subseteq usedIds'
         ]_vars

C21_Witness ==
    /\ ragTurn.n = 1 /\ turn.n = 1
    /\ ragTurn.pc = "ragModel"
    /\ ragTurn.supplied = turn.thread
    /\ turn.supplied = "null"
    /\ turn.fresh /\ ~ragTurn.fresh
    /\ turn.outcome = "returned"

----------------------------------------------------------------------------
(* DocumentProcessor.sanitizeMetadata *)

MaxSanitizeDocs == 1   \* longest chunk list handed to sanitizeMetadata
MaxClock == 1          \* how far the clock may advance

\* a metadata value: its typeof (or "null", or "missing" for a key that is
\* not there), its text when it is a string, its value when it is a number
MetaValue(t, text, n) == [t |-> t, s |-> text, n |-> n]

MetaKeys == { "source", "loc", "chunk_size", "processed_at" }

\* a chunk; hasMetadata is false when doc.metadata is undefined; its source
\* may be missing, a string, empty, 0, null or an object, its loc missing, a
\* number, an object, undefined or a function; its content a string or missing
SanitizeSamples ==
    { [pageContent |-> c, hasMetadata |-> TRUE,
       metadata |-> [k \in MetaKeys |-> CASE k = "source" -> src
                                          [] k = "loc" -> loc
                                          [] OTHER -> MetaValue("missing", "", 0)]] :
         c \in { Str(<<"a", "b">>), Undefined },
         src \in { MetaValue("missing", "", 0), MetaValue("string", "f", 0),
                   MetaValue("string", "", 0), MetaValue("number", "", 0),
                   MetaValue("null", "", 0), MetaValue("object", "o", 0) },
         loc \in { MetaValue("missing", "", 0), MetaValue("number", "", 7),
                   MetaValue("object", "o", 0), MetaValue("undefined", "", 0),
                   MetaValue("function", "", 0) } }
    \cup
    { [pageContent |-> c, hasMetadata |-> FALSE,
       metadata |-> [k \in MetaKeys |-> MetaValue("missing", "", 0)]] :
         c \in { Str(<<"a", "b">>), Undefined } }

\* JSON.stringify of an object
stringify(value) == MetaValue("string", "{" \o value.s \o "}", 0)

\* lines 37-49: what the loop over the entries stores for a value
sanitized(value) ==
    CASE value.t \in {"string", "number", "boolean", "null"} -> value
      [] value.t = "object" -> stringify(value)
      [] OTHER -> MetaValue("missing", "", 0)

\* JavaScript truthiness of a metadata value
truthyValue(value) ==
    CASE value.t \in {"missing", "undefined", "null"} -> FALSE
      [] value.t = "string" -> value.s # ""
      [] value.t = "number" -> value.n # 0
      [] OTHER -> TRUE

\* new Date().toISOString() at a clock reading
toISOString(now) == MetaValue("string", "time", now)

\* doc.pageContent?.length || 0
lengthOrZero(content) == IF content.t = "string" THEN Len(content.s) ELSE 0

\* lines 32-61: sanitizeMetadata run at clock reading `now`
sanitizeMetadata(docs, now) ==
    [ d \in 1..Len(docs) |->
        [ pageContent |-> docs[d].pageContent,
          hasMetadata |-> TRUE,
          metadata |->
            [ k \in MetaKeys |->
                CASE k = "source" ->
                        IF truthyValue(docs[d].metadata.source)
                        THEN docs[d].metadata.source
                        ELSE MetaValue("string", "unknown", 0)
                  [] k = "chunk_size" ->
                        MetaValue("number", "", lengthOrZero(docs[d].pageContent))
                  [] k = "processed_at" -> toISOString(now)
                  [] OTHER -> sanitized(docs[d].metadata[k]) ] ] ]

\* the chunks are sanitized
SanitizeOnce ==
    /\ san.pc = "input"
    /\ san' = [san EXCEPT !.once = sanitizeMetadata(san.docs, san.clock), !.pc = "once"]
    /\ UNCHANGED <<collections, build, calls, builderVars, graphVars, toolVars, stream, cli, tr>>

\* the result is sanitized again
SanitizeTwice ==
    /\ san.pc = "once"
    /\ san' = [san EXCEPT !.twice = sanitizeMetadata(san.once, san.clock), !.pc = "twice"]
    /\ UNCHANGED <<collections, build, calls, builderVars, graphVars, toolVars, stream, cli, tr>>

\* time passes
Tick ==
    /\ san.pc \in {"input", "once"}
    /\ san.clock < MaxClock
    /\ san' = [san EXCEPT !.clock = @ + 1]
    /\ UNCHANGED <<collections, build, calls, builderVars, graphVars, toolVars, stream, cli, tr>>

\* any chunk list
InitSanitize ==
    /\ \E docs \in SeqsUpTo(SanitizeSamples, MaxSanitizeDocs) :
          san = [pc |-> "input", docs |-> docs, once |-> <<>>, twice |-> <<>>, clock |-> 0]
    /\ collections = [name \in CollectionNames |-> Absent]
    /\ build = [b \in {StoreBuild} |-> IdleBuild]
    /\ calls = <<>>
    /\ rb = IdleBuilder
    /\ checkpoints = <<>>
    /\ usedIds = {}
    /\ turn = NoTurn
    /\ ragCheckpoints = <<>>
    /\ ragTurn = NoRagTurn
    /\ clean = IdleClean
    /\ stream = Idle
    /\ cli = Idle
    /\ tr = Idle

NextSanitize ==
    \/ SanitizeOnce
    \/ SanitizeTwice
    \/ Tick

SpecSanitize == InitSanitize /\ [][NextSanitize]_vars

----------------------------------------------------------------------------
(* The streaming consumer of the CLI: for await (const ev of stream) *)

MaxEvents == 3      \* longest event stream of one run

ReplyPrefix == "assistant: "
NoReplyLine == "assistant: no reply"
NewLine == "\n"

\* a part of an array content: a string, an object with or without a text
\* member, or null
Part(kind, text) == [kind |-> kind, text |-> text]

\* a chunk: content is a string, an array of parts, or not there
Chunk(kind, text, parts) == [kind |-> kind, text |-> text, parts |-> parts]

Event(event, chunk) == [event |-> event, chunk |-> chunk]

\* what a run of the graph may emit
EventSamples ==
    { Event("on_chat_model_stream", Chunk("string", "a", <<>>)),
      Event("on_chat_model_stream", Chunk("string", "", <<>>)),
      Event("on_chat_model_stream",
            Chunk("array", "", <<Part("string", Text("b")), Part("object", Text("c")),
                         Part("object", Nullish)>>)),
      Event("on_chat_model_stream", Chunk("array", "", <<Part("null", Nullish)>>)),
      Event("on_chat_model_stream", Chunk("undefined", "", <<>>)),
      Event("on_chain_end", Chunk("string", "z", <<>>)) }

\* typeof c === "string" ? c : c?.text ?? ""
partText(c) ==
    IF c.kind = "string" THEN c.text[1]
    ELSE IF c.kind = "object" THEN coalesce(c.text, Text(""))[1]
    ELSE ""

\* lines 376-380: the text of a chunk
piece(chunk) ==
    IF chunk.kind = "array"
    THEN join([k \in 1..Len(chunk.parts) |-> partText(chunk.parts[k])])
    ELSE IF chunk.kind = "string" THEN chunk.text ELSE ""

\* a filter that lets every event through
anyEvent(ev) == TRUE

\* line 373: ev.event === "on_chat_model_stream"
onChatModelStream(ev) == ev.event = "on_chat_model_stream"

\* lines 370-371: the consumer before the first event
consumer == [first |-> TRUE, hasContent |-> FALSE, out |-> <<>>]

\* lines 372-391: one iteration of the for await loop
onEvent(c, ev) ==
    IF ~onChatModelStream(ev) \/ piece(ev.chunk) = "" THEN c
    ELSE [ first |-> FALSE, hasContent |-> TRUE,
           out |-> (IF c.first THEN Append(c.out, ReplyPrefix) ELSE c.out)
                   \o <<piece(ev.chunk)>> ]

\* lines 393-397: after the loop
onEnd(c) ==
    [c EXCEPT !.out = IF ~c.hasContent THEN Append(c.out, NoReplyLine)
                      ELSE Append(c.out, NewLine)]

\* the whole consumer on an event stream
RECURSIVE consumeFrom(_, _)
consumeFrom(c, events) ==
    IF events = <<>> THEN onEnd(c) ELSE consumeFrom(onEvent(c, Head(events)), Tail(events))

\* the next event of the stream arrives
ConsumeEvent ==
    /\ stream.pc = "loop"
    /\ stream.i < Len(stream.events)
    /\ stream' = [stream EXCEPT !.i = @ + 1,
                                 !.c = onEvent(stream.c, stream.events[stream.i + 1])]
    /\ UNCHANGED <<collections, build, calls, builderVars, graphVars, toolVars, san, cli, tr>>

\* the stream ends
EndOfStream ==
    /\ stream.pc = "loop"
    /\ stream.i = Len(stream.events)
    /\ stream' = [stream EXCEPT !.pc = "done", !.c = onEnd(stream.c)]
    /\ UNCHANGED <<collections, build, calls, builderVars, graphVars, toolVars, san, cli, tr>>

\* any event stream
InitStream ==
    /\ \E events \in SeqsUpTo(EventSamples, MaxEvents) :
          stream = [pc |-> "loop", events |-> events, i |-> 0, c |-> consumer]
    /\ collections = [name \in CollectionNames |-> Absent]
    /\ build = [b \in {StoreBuild} |-> IdleBuild]
    /\ calls = <<>>
    /\ rb = IdleBuilder
    /\ checkpoints = <<>>
    /\ usedIds = {}
    /\ turn = NoTurn
    /\ ragCheckpoints = <<>>
    /\ ragTurn = NoRagTurn
    /\ clean = IdleClean
    /\ san = Idle
    /\ cli = Idle
    /\ tr = Idle

NextStream ==
    \/ ConsumeEvent
    \/ EndOfStream

SpecStream == InitStream /\ [][NextStream]_vars

----------------------------------------------------------------------------
(* The CLI session loop: main *)

MaxCliTurns == 2    \* how many conversational turns a session runs

\* lines the user may type
LineSamples ==
    { <<" ">>,
      <<"/", "e", "x", "i", "t">>,
      <<"/", "n", "e", "w">>,
      <<"/", "h">>,
      <<"/", "r", "a", "g", " ">>,
      <<"/", "r", "a", "g", " ", "h", "i">>,
      <<"h", "i", " ">> }

ExitCommand == <<"/", "e", "x", "i", "t">>
NewCommand == <<"/", "n", "e", "w">>
HelpCommands == { <<"/", "h", "e", "l", "p">>, <<"/", "h">> }
RagCommand == <<"/", "r", "a", "g">>

\* String.prototype.startsWith
startsWith(text, prefix) ==
    Len(text) >= Len(prefix) /\ SubSeq(text, 1, Len(prefix)) = prefix

\* what a run may throw: an Error with a message
ErrorSamples == { [message |-> "API key not valid"], [message |-> "boom"] }

\* the event streams a run of the plain graph may emit
CliStreamSamples ==
    { <<Event("on_chain_start", Chunk("undefined", "", <<>>)),
        Event("on_chat_model_stream", Chunk("string", "a", <<>>))>>,
      <<Event("on_chat_model_stream", Chunk("string", "", <<>>))>> }

\* the content of the message the chat model has streamed
streamed(events) ==
    join([k \in 1..Len(events) |->
            IF events[k].event = "on_chat_model_stream" THEN piece(events[k].chunk) ELSE ""])

\* a message and the graph and thread it was submitted to or produced for
\* (the graph and the thread are not read by the program)
CliMessage(role, content, graph, threadId) ==
    Message(role, content, [graph |-> graph, thread |-> threadId])

\* a catch that lets the failure end the loop
catchTurnRethrow(c, err) ==
    [c EXCEPT !.pc = "closed", !.outcome = "caught", !.logged = err.message,
              !.failed = @ + 1]

\* lines 353-360 and 399-412: the failure is logged and the loop continues
catchTurn(c, err) ==
    [c EXCEPT !.pc = "prompt", !.outcome = "caught", !.logged = err.message,
              !.failed = @ + 1]

\* lines 278-323 and 365-368: a line is read and dispatched; a
\* conversational turn is started on the graph it addresses
Question(q) ==
    /\ cli.pc = "prompt"
    /\ LET text == trim(q)
           question == trim(slice(text, 4, Len(text)))
           read == [cli EXCEPT !.text = text, !.out = <<>>, !.logged = ""]
       IN
       IF text = <<>> THEN
          /\ cli' = [read EXCEPT !.outcome = "blank"]
          /\ UNCHANGED <<checkpoints, ragCheckpoints, usedIds>>
       ELSE IF text = ExitCommand THEN
          /\ cli' = [read EXCEPT !.pc = "closed", !.outcome = "exit"]
          /\ UNCHANGED <<checkpoints, ragCheckpoints, usedIds>>
       ELSE IF text = NewCommand THEN
          /\ \E id \in ThreadIds :
                /\ keyedBy("undefined", id)
                /\ cli' = [read EXCEPT !.threadId = id, !.outcome = "new"]
                /\ usedIds' = usedIds \cup {id}
          /\ UNCHANGED <<checkpoints, ragCheckpoints>>
       ELSE IF text \in HelpCommands THEN
          /\ cli' = [read EXCEPT !.outcome = "help"]
          /\ UNCHANGED <<checkpoints, ragCheckpoints, usedIds>>
       ELSE IF startsWith(text, RagCommand) THEN
          IF question = <<>> THEN
             /\ cli' = [read EXCEPT !.outcome = "usage"]
             /\ UNCHANGED <<checkpoints, ragCheckpoints, usedIds>>
          ELSE
             /\ cli.n < MaxCliTurns
             /\ LET messages ==
                        addMessages(getRagState(cli.threadId),
                                    <<CliMessage("user", join(question), "ragApp", cli.threadId)>>)
                IN  /\ ragCheckpoints' = [ragCheckpoints EXCEPT ![cli.threadId] = messages]
                    /\ cli' = [read EXCEPT !.pc = "ragStream", !.mode = "rag", !.n = @ + 1,
                                           !.messages = messages, !.prompt = <<>>,
                                           !.outcome = "none"]
             /\ UNCHANGED <<checkpoints, usedIds>>
       ELSE
          /\ cli.n < MaxCliTurns
          /\ LET messages ==
                     addMessages(getState(cli.threadId),
                                 <<CliMessage("user", join(text), "app", cli.threadId)>>)
             IN  /\ checkpoints' = [checkpoints EXCEPT ![cli.threadId] = messages]
                 /\ cli' = [read EXCEPT !.pc = "stream", !.mode = "chat", !.n = @ + 1,
                                        !.messages = messages, !.prompt = <<>>,
                                        !.outcome = "none"]
          /\ UNCHANGED <<ragCheckpoints, usedIds>>
    /\ UNCHANGED <<collections, build, calls, builderVars, toolVars, turn, ragTurn,
                   san, stream, tr>>

\* lines 365-412: the plain graph runs callModel and streams; the consumer
\* prints; a failure is caught by the try of the loop body
StreamChat ==
    /\ cli.pc = "stream"
    /\ LET trimmed == trimmer(cli.messages) IN
       \/ \E events \in CliStreamSamples :
             /\ checkpoints' =
                   [checkpoints EXCEPT ![cli.threadId] =
                       addMessages(cli.messages,
                                   <<CliMessage("assistant", streamed(events), "app",
                                                cli.threadId)>>)]
             /\ cli' = [cli EXCEPT !.pc = "prompt", !.prompt = trimmed,
                                   !.outcome = "printed",
                                   !.out = consumeFrom(consumer, events).out]
       \/ \E err \in ErrorSamples :
             /\ cli' = catchTurn([cli EXCEPT !.prompt = trimmed], err)
             /\ UNCHANGED checkpoints
    /\ UNCHANGED <<collections, build, calls, builderVars, toolVars, turn, ragTurn,
                   ragCheckpoints, usedIds, san, stream, tr>>

\* lines 316-361: the RAG graph runs callRAGModel and streams; the consumer
\* prints; a failure of the run is caught by the try of the branch
StreamRag ==
    /\ cli.pc = "ragStream"
    /\ LET done(content, events) ==
               /\ ragCheckpoints' =
                     [ragCheckpoints EXCEPT ![cli.threadId] =
                         addMessages(cli.messages,
                                     <<CliMessage("assistant", content, "ragApp",
                                                  cli.threadId)>>)]
               /\ cli' = [cli EXCEPT !.pc = "prompt", !.outcome = "printed",
                                     !.prompt = slice(cli.messages, 0, Len(cli.messages) - 1),
                                     !.out = consumeFrom(consumer, events).out]
       IN
       \/ \E result \in ResultSamples :
             done(replyOf(result),
                  IF result.answer = Nullish THEN <<>>
                  ELSE <<Event("on_chat_model_stream",
                               Chunk("string", result.answer[1], <<>>))>>)
       \/ done(errorReply("retrieval error"), <<>>)
       \/ \E err \in ErrorSamples :
             /\ cli' = catchTurn(cli, err)
             /\ UNCHANGED ragCheckpoints
    /\ UNCHANGED <<collections, build, calls, builderVars, toolVars, turn, ragTurn,
                   checkpoints, usedIds, san, stream, tr>>

\* lines 270-274: the interrupt signal ends the process
Sigint ==
    /\ cli.pc \in {"prompt", "stream", "ragStream"}
    /\ cli' = [cli EXCEPT !.pc = "exited"]
    /\ UNCHANGED <<collections, build, calls, builderVars, graphVars, toolVars,
                   san, stream, tr>>

\* lines 254-275: the session starts at its prompt on a minted thread id
InitCli ==
    /\ \E id \in ThreadIds :
          /\ cli = [ pc |-> "prompt", threadId |-> id, text |-> <<>>, mode |-> "none",
                     n |-> 0, messages |-> <<>>, prompt |-> <<>>, outcome |-> "none",
                     out |-> <<>>, logged |-> "", failed |-> 0 ]
          /\ usedIds = {id}
    /\ checkpoints = [t \in ThreadIds |-> <<>>]
    /\ ragCheckpoints = [t \in ThreadIds |-> <<>>]
    /\ turn = NoTurn
    /\ ragTurn = NoRagTurn
    /\ collections = [name \in CollectionNames |-> Absent]
    /\ build = [b \in {StoreBuild} |-> IdleBuild]
    /\ calls = <<>>
    /\ rb = IdleBuilder
    /\ clean = IdleClean
    /\ san = Idle
    /\ stream = Idle
    /\ tr = Idle

NextCli ==
    \/ \E q \in LineSamples : Question(q)
    \/ StreamChat
    \/ StreamRag
    \/ Sigint

SpecCli == InitCli /\ [][NextCli]_vars

----------------------------------------------------------------------------
(* Two createChromaStore calls in flight at once *)

MaxRaceDocs == 1    \* longest chunk list of a build that runs beside another

RaceBuild == 3      \* the id of the second build

\* two builds are entered, the first on the default collection, the second
\* on that or on another; the second has two chunks and does not pre-embed
InitRace ==
    /\ \E docs \in SeqsUpTo({Str(<<"a">>)}, MaxRaceDocs), name \in CleanNames,
          preEmbedFilter \in BOOLEAN :
          LET options(collectionName, filter) ==
                 [ collectionName |-> collectionName, batchSize |-> 1,
                   resetCollection |-> TRUE, embedSubBatchSize |-> 1,
                   preEmbedFilter |-> filter ]
          IN  build = [b \in {StoreBuild, RaceBuild} |->
                         IF b = StoreBuild
                         THEN createChromaStore(b, docs,
                                                options(DefaultCollection, preEmbedFilter))
                         ELSE createChromaStore(b, <<Str(<<"a">>), Str(<<"a">>)>>,
                                                options(name, FALSE))]
    /\ collections = [name \in CleanNames |-> Absent]
    /\ calls = <<>>
    /\ rb = IdleBuilder
    /\ checkpoints = <<>>
    /\ usedIds = {}
    /\ turn = NoTurn
    /\ ragCheckpoints = <<>>
    /\ ragTurn = NoRagTurn
    /\ clean = IdleClean
    /\ san = Idle
    /\ stream = Idle
    /\ cli = Idle
    /\ tr = Idle

NextRace == \E b \in {StoreBuild, RaceBuild} : StoreStep(b)

SpecRace == InitRace /\ [][NextRace]_vars

----------------------------------------------------------------------------
(* The translation CLI: sessions and main of agent.js *)

MaxTranslateTurns == 2    \* how many messages a session of the tool translates

DEFAULT_LANGUAGE == "Chinese"

\* lines the user may type
TranslateLines ==
    { <<" ">>,
      <<"/", "e", "x", "i", "t">>,
      <<"/", "n", "e", "w">>,
      <<"/", "u", "s", "e", " ", "t", "1">>,
      <<"/", "u", "s", "e", " ", "t", "2", " ">>,
      <<"/", "u", "s", "e", " ", "z", "z">>,
      <<"/", "h", "i", "s", "t", "o", "r", "y">>,
      <<"h", "i">> }

UseCommand == <<"/", "u", "s", "e", " ">>
HistoryCommand == <<"/", "h", "i", "s", "t", "o", "r", "y">>

\* the event streams a run of the translation graph may emit
TranslateStreamSamples ==
    { <<Event("on_chat_model_stream", Chunk("string", "a", <<>>)),
        Event("on_chain_end", Chunk("string", "z", <<>>)),
        Event("on_chat_model_stream",
              Chunk("array", "", <<Part("string", Text("b")), Part("object", Text("c"))>>))>>,
      <<Event("on_chat_model_stream", Chunk("string", "", <<>>))>> }

\* lines 497-507: acc after the loop over the events
accumulated(events) ==
    join([k \in 1..Len(events) |->
            IF events[k].event = "on_chat_model_stream" THEN piece(events[k].chunk) ELSE ""])

\* line 417 and line 432: a new session
newSession == [language |-> DEFAULT_LANGUAGE, transcript |-> <<>>]

\* Map.prototype.set
mapSet(map, key, value) ==
    [k \in DOMAIN map \cup {key} |-> IF k = key THEN value ELSE map[k]]

\* session.transcript.push(entry) on the session of a thread
pushEntry(map, key, entry) ==
    [map EXCEPT ![key] = [@ EXCEPT !.transcript = Append(@, entry)]]

\* a catch that records an answer for the failed turn
failedTurnAnswered(t, err) ==
    [t EXCEPT !.pc = "prompt", !.outcome = "failed",
              !.sessions = pushEntry(t.sessions, t.threadId,
                                     [role |-> "assistant", content |-> err.message])]

\* lines 512-514: the catch of a turn logs the failure
failedTurn(t, err) == [t EXCEPT !.pc = "prompt", !.outcome = "failed"]

\* lines 429-494: a line is read and dispatched; a normal message is pushed
\* to the transcript of the current session and its turn is started
TranslateQuestion(q) ==
    /\ tr.pc = "prompt"
    /\ LET raw == trim(q)
           id == join(trim(slice(raw, 5, Len(raw))))
           read == [tr EXCEPT !.raw = raw, !.events = <<>>]
       IN
       IF raw = <<>> THEN
          /\ tr' = [read EXCEPT !.outcome = "blank"]
          /\ UNCHANGED checkpoints
       ELSE IF raw = ExitCommand THEN
          /\ tr' = [read EXCEPT !.pc = "closed", !.outcome = "exit"]
          /\ UNCHANGED checkpoints
       ELSE IF raw = NewCommand THEN
          /\ \E new \in ThreadIds \ DOMAIN tr.sessions :
                tr' = [read EXCEPT !.threadId = new,
                                   !.sessions = mapSet(tr.sessions, new, newSession),
                                   !.outcome = "new"]
          /\ UNCHANGED checkpoints
       ELSE IF startsWith(raw, UseCommand) THEN
          /\ tr' = IF id \notin DOMAIN tr.sessions
                   THEN [read EXCEPT !.outcome = "not found"]
                   ELSE [read EXCEPT !.threadId = id, !.outcome = "switched"]
          /\ UNCHANGED checkpoints
       ELSE IF raw = HistoryCommand \/ startsWith(raw, HistoryCommand \o <<" ">>) THEN
          /\ tr' = [read EXCEPT !.outcome = "history"]
          /\ UNCHANGED checkpoints
       ELSE
          /\ tr.n < MaxTranslateTurns
          /\ tr' = [read EXCEPT
                       !.pc = "stream", !.n = @ + 1, !.outcome = "none",
                       !.sessions = pushEntry(tr.sessions, tr.threadId,
                                              [role |-> "user", content |-> join(raw)])]
          /\ checkpoints' =
                [checkpoints EXCEPT ![tr.threadId] =
                    addMessages(getState(tr.threadId),
                                <<Message("user", join(raw), tr.threadId)>>)]
    /\ UNCHANGED <<collections, build, calls, builderVars, toolVars, usedIds, turn,
                   ragCheckpoints, ragTurn, san, stream, cli>>

\* lines 496-514: the graph streams the translation; the pieces are
\* accumulated and pushed as the assistant entry; a failure is logged
TranslateStream ==
    /\ tr.pc = "stream"
    /\ \/ \E events \in TranslateStreamSamples :
             /\ tr' = [tr EXCEPT
                          !.pc = "prompt", !.events = events, !.outcome = "replied",
                          !.sessions = pushEntry(tr.sessions, tr.threadId,
                                                 [role |-> "assistant",
                                                  content |-> accumulated(events)])]
             /\ checkpoints' =
                   [checkpoints EXCEPT ![tr.threadId] =
                       addMessages(getState(tr.threadId),
                                   <<Message("assistant", accumulated(events), tr.threadId)>>)]
       \/ \E err \in ErrorSamples :
             /\ tr' = failedTurn(tr, err)
             /\ UNCHANGED checkpoints
    /\ UNCHANGED <<collections, build, calls, builderVars, toolVars, usedIds, turn,
                   ragCheckpoints, ragTurn, san, stream, cli>>

\* lines 415-427: the tool starts at its prompt with one session
InitTranslate ==
    /\ \E id \in ThreadIds :
          tr = [ pc |-> "prompt", threadId |-> id,
                 sessions |-> mapSet(<<>>, id, newSession),
                 raw |-> <<>>, n |-> 0, events |-> <<>>, outcome |-> "none" ]
    /\ checkpoints = [t \in ThreadIds |-> <<>>]
    /\ ragCheckpoints = [t \in ThreadIds |-> <<>>]
    /\ usedIds = {}
    /\ turn = NoTurn
    /\ ragTurn = NoRagTurn
    /\ collections = [name \in CollectionNames |-> Absent]
    /\ build = [b \in {StoreBuild} |-> IdleBuild]
    /\ calls = <<>>
    /\ rb = IdleBuilder
    /\ clean = IdleClean
    /\ san = Idle
    /\ stream = Idle
    /\ cli = Idle

NextTranslate ==
    \/ \E q \in TranslateLines : TranslateQuestion(q)
    \/ TranslateStream

SpecTranslate == InitTranslate /\ [][NextTranslate]_vars

----------------------------------------------------------------------------
(* Properties of sanitizeMetadata *)

\* C22: sanitizing a sanitized chunk list gives the sanitized chunk list
\* again, content and every metadata field, the timestamp included.
C22_SanitizeIdempotent ==
    san.pc = "twice" => san.twice = san.once

\* C23: in a sanitized chunk list every metadata value that is there is a
\* string, a number, a boolean or null, a non-primitive input value having
\* been replaced by its JSON string; source is there and is the input source,
\* or "unknown" when the input had none (a falsy one counted as none);
\* chunk_size is the length of the content, 0 when there is no content.
C23_SanitizedMetadataPrimitive ==
    san.pc \in {"once", "twice"} =>
       \A d \in 1..Len(san.once) :
          LET out == san.once[d].metadata
              in == san.docs[d].metadata
          IN  /\ \A k \in MetaKeys :
                    out[k].t \in {"missing", "string", "number", "boolean", "null"}
              /\ in["loc"].t = "object" =>
                    out["loc"] = MetaValue("string", "{" \o in["loc"].s \o "}", 0)
              /\ out["source"].t # "missing"
              /\ out["source"] \in {in["source"], MetaValue("string", "unknown", 0)}
              /\ in["source"].t = "missing" => out["source"] = MetaValue("string", "unknown", 0)
              /\ out["chunk_size"] = MetaValue("number", "", IF san.docs[d].pageContent.t = "string"
                                                THEN Len(san.docs[d].pageContent.s) ELSE 0)

----------------------------------------------------------------------------
(* Properties of the streaming consumer *)

\* the texts of the content-delta events among the first n events, in
\* arrival order, empty ones left out
Deltas(n) ==
    LET text(ev) ==
            CASE ev.event # "on_chat_model_stream" -> ""
              [] ev.chunk.kind = "string" -> ev.chunk.text
              [] ev.chunk.kind = "array" ->
                    LET p == ev.chunk.parts
                        T[k \in 0..Len(p)] ==
                            IF k = 0 THEN ""
                            ELSE T[k - 1] \o (IF p[k].text = <<>> THEN "" ELSE p[k].text[1])
                    IN  T[Len(p)]
              [] OTHER -> ""
        D[k \in 0..n] ==
            IF k = 0 THEN <<>>
            ELSE IF text(stream.events[k]) = "" THEN D[k - 1]
            ELSE Append(D[k - 1], text(stream.events[k]))
    IN  D[n]

\* C27: what the consumer has written is the texts of the
\* on_chat_model_stream events that have arrived, in arrival order (a string
\* content, or the joined text parts of an array content), events of any
\* other type adding nothing; the reply prefix is written once, before
\* the first non-empty piece, and not at all when there is none; when the
\* stream has ended, the no-reply line has been written if and only if no
\* non-empty piece arrived.
C27_StreamedReply ==
    stream.pc \in {"loop", "done"} =>
       LET deltas == Deltas(stream.i)
           out == stream.c.out
       IN  /\ deltas = <<>> /\ stream.pc = "loop" => out = <<>>
           /\ deltas = <<>> /\ stream.pc = "done" => out = <<NoReplyLine>>
           /\ deltas # <<>> /\ stream.pc = "loop" => out = <<ReplyPrefix>> \o deltas
           /\ deltas # <<>> /\ stream.pc = "done" => out = <<ReplyPrefix>> \o deltas \o <<NewLine>>

C27_Witness ==
    /\ stream.pc = "done"
    /\ Len(stream.events) = 3
    /\ stream.events[1].event = "on_chain_end"
    /\ stream.events[2].chunk.kind = "array"
    /\ stream.events[3].chunk.kind = "string"
    /\ stream.c.out = <<ReplyPrefix, "bc", "a", NewLine>>

----------------------------------------------------------------------------
(* Properties of the CLI session loop *)

\* C24: a conversational turn that is in flight, plain or /rag, ends with the
\* loop back at its prompt on the thread id it had, whether the turn
\* succeeded or failed, unless the interrupt signal ended the process; the
\* loop closes only from its prompt, on /exit.
C24_TurnFailureKeepsLoop ==
    [][ /\ (cli.pc \in {"stream", "ragStream"} /\ cli'.pc # "exited") =>
              (cli'.pc = "prompt" /\ cli'.threadId = cli.threadId)
        /\ (cli'.failed # cli.failed) =>
              (/\ cli'.pc = "prompt"
               /\ cli'.threadId = cli.threadId
               /\ cli'.logged \in { e.message : e \in ErrorSamples })
        /\ (cli'.pc = "closed" /\ cli.pc # "closed") =>
              (cli.pc = "prompt" /\ cli'.text = ExitCommand) ]_vars

C24_Witness ==
    /\ cli.pc = "prompt"
    /\ cli.failed = 1
    /\ cli.n = 2
    /\ cli.mode = "rag"
    /\ cli.outcome = "printed"
    /\ Len(checkpoints[cli.threadId]) = 1

\* C28: whatever plain and /rag turns a session has run, the plain graph's
\* store holds messages of plain turns only and the RAG graph's store
\* messages of /rag turns only, each under the thread id the turn ran on, and
\* so do the history a plain turn's node sees and the chat history of a /rag
\* turn; a turn of either graph runs on the session's current thread id; /new
\* replaces that id by one under which neither store holds anything.
C28_SeparateStores ==
    /\ [](cli.pc # "idle" =>
            /\ \A t \in ThreadIds :
                  /\ \A k \in 1..Len(checkpoints[t]) :
                        checkpoints[t][k].origin = [graph |-> "app", thread |-> t]
                  /\ \A k \in 1..Len(ragCheckpoints[t]) :
                        ragCheckpoints[t][k].origin = [graph |-> "ragApp", thread |-> t]
            /\ \A k \in 1..Len(cli.messages) :
                  /\ cli.messages[k].origin.graph =
                        (IF cli.mode = "chat" THEN "app" ELSE "ragApp")
                  /\ cli.messages[k].origin.thread = cli.messages[1].origin.thread)
    /\ [][ /\ (cli'.n # cli.n /\ cli'.mode = "chat") =>
                 (/\ cli'.threadId = cli.threadId
                  /\ cli'.messages = checkpoints'[cli.threadId]
                  /\ Extends(checkpoints'[cli.threadId], checkpoints[cli.threadId], "user")
                  /\ ragCheckpoints' = ragCheckpoints)
           /\ (cli'.n # cli.n /\ cli'.mode = "rag") =>
                 (/\ cli'.threadId = cli.threadId
                  /\ cli'.messages = ragCheckpoints'[cli.threadId]
                  /\ Extends(ragCheckpoints'[cli.threadId], ragCheckpoints[cli.threadId], "user")
                  /\ checkpoints' = checkpoints)
           /\ (cli'.threadId # cli.threadId) =>
                 (/\ cli'.text = NewCommand
                  /\ cli'.threadId \notin usedIds
                  /\ checkpoints[cli'.threadId] = <<>>
                  /\ ragCheckpoints[cli'.threadId] = <<>>) ]_vars

C28_Witness ==
    /\ cli.pc = "prompt"
    /\ cli.mode = "rag"
    /\ cli.outcome = "printed"
    /\ Cardinality(usedIds) = 2
    /\ Len(checkpoints[cli.threadId]) = 2
    /\ Len(ragCheckpoints[cli.threadId]) = 2

----------------------------------------------------------------------------
(* Properties of the trimmer *)

\* the prompt is made of the most recent messages of the log, in their
\* order, the first of them possibly cut down to its ending lines
RecentOf(prompt, log) ==
    LET n == Len(log)
        j == Len(prompt)
    IN  /\ j <= n
        /\ \A i \in 2..j : prompt[i] = log[n - j + i]
        /\ j >= 1 =>
              \/ prompt[1] = log[n - j + 1]
              \/ /\ prompt[1].role = log[n - j + 1].role
                 /\ LET lines == splitLines(log[n - j + 1].content) IN
                    \E k \in 2..Len(lines) :
                       prompt[1].content = join(SubSeq(lines, k, Len(lines)))

\* the token estimate of the claim: a third of the characters of the
\* contents joined by single spaces, rounded up
Estimate(msgs) ==
    LET C[k \in 0..Len(msgs)] == IF k = 0 THEN 0 ELSE C[k - 1] + Len(msgs[k].content)
        chars == C[Len(msgs)] + (IF Len(msgs) > 1 THEN Len(msgs) - 1 ELSE 0)
    IN  IF chars % 3 = 0 THEN chars \div 3 ELSE chars \div 3 + 1

----------------------------------------------------------------------------
(* Properties of builds that run side by side *)

\* the items of a collection that build b wrote
WrittenBy(b, name) ==
    IF collections[name] = Absent THEN <<>>
    ELSE SelectSeq(collections[name], LAMBDA item : item.b = b)

\* C26: nothing keeps two resetting builds apart (a build on the name of
\* another may delete or join what the other wrote: see the witness); a step
\* of a build touches no collection but the one it names, and a build that
\* has returned while the other build names another collection finds in its
\* collection exactly the chunks it counted as inserted.
C26_DistinctNamesIsolated ==
    /\ [](\A b \in DOMAIN build : \A o \in DOMAIN build :
            (/\ build[b].pc = "returned"
             /\ o # b
             /\ build[o].collectionName # build[b].collectionName) =>
                (/\ Len(WrittenBy(b, build[b].collectionName)) = build[b].insertedTotal
                 /\ WrittenBy(o, build[b].collectionName) = <<>>))
    /\ [][ \A b \in DOMAIN build :
             build'[b] # build[b] =>
                \A name \in DOMAIN collections \ {build[b].collectionName} :
                   IF collections[name] = Absent THEN collections'[name] = Absent
                   ELSE collections'[name] # Absent /\ collections'[name] = collections[name]
          ]_vars

C26_Witness ==
    /\ DOMAIN build = {StoreBuild, RaceBuild}
    /\ build[StoreBuild].collectionName = build[RaceBuild].collectionName
    /\ build[StoreBuild].pc = "returned"
    /\ build[RaceBuild].pc = "returned"
    /\ build[StoreBuild].insertedTotal = 1
    /\ build[RaceBuild].insertedTotal = 2
    /\ build[StoreBuild].deleted = "notfound"
    /\ build[RaceBuild].deleted = "deleted"
    /\ WrittenBy(StoreBuild, build[StoreBuild].collectionName) = <<>>
    /\ Len(WrittenBy(RaceBuild, build[RaceBuild].collectionName)) = 2

----------------------------------------------------------------------------
(* Properties of the batching of createChromaStore *)

\* the chunks build b has sent batch by batch, in the order sent: to the
\* embedder when it pre-embeds, to the insert otherwise
SentBy(b) ==
    LET ops == IF build[b].preEmbedFilter THEN {"embedDocuments"} ELSE InsertOps
        F[k \in 0..Len(calls)] ==
            IF k = 0 THEN <<>>
            ELSE IF calls[k].b = b /\ calls[k].op \in ops THEN F[k - 1] \o calls[k].docs
                 ELSE F[k - 1]
    IN  F[Len(calls)]

----------------------------------------------------------------------------
(* Properties of the translation CLI *)

\* the text of the content-delta events of a stream, in arrival order
StreamedText(events) ==
    LET text(ev) ==
            CASE ev.event # "on_chat_model_stream" -> ""
              [] ev.chunk.kind = "string" -> ev.chunk.text
              [] ev.chunk.kind = "array" ->
                    LET p == ev.chunk.parts
                        T[k \in 0..Len(p)] ==
                            IF k = 0 THEN ""
                            ELSE T[k - 1] \o (IF p[k].text = <<>> THEN "" ELSE p[k].text[1])
                    IN  T[Len(p)]
              [] OTHER -> ""
        A[k \in 0..Len(events)] == IF k = 0 THEN "" ELSE A[k - 1] \o text(events[k])
    IN  A[Len(events)]

\* C30: the current thread id is always a key of sessions; no key is
\* removed and no transcript loses or changes an entry; the thread id
\* changes only on /new, to a new key with an empty transcript, or on /use,
\* to the key named, which was a key already (a /use naming anything else
\* changes nothing); a normal message appends its user entry to the
\* transcript of the current session and to no other; the turn that follows
\* appends one assistant entry holding the streamed pieces concatenated when
\* it succeeds and nothing when it fails.
C30_SessionsAndTranscripts ==
    /\ [](tr.pc # "idle" => tr.threadId \in DOMAIN tr.sessions)
    /\ [][ tr.pc # "idle" =>
            LET current == tr.sessions[tr.threadId].transcript
                others == DOMAIN tr.sessions \ {tr.threadId}
            IN
            /\ DOMAIN tr.sessions \subseteq DOMAIN tr'.sessions
            /\ \A id \in others : tr'.sessions[id] = tr.sessions[id]
            /\ (tr'.threadId # tr.threadId) =>
                  \/ /\ tr'.raw = NewCommand
                     /\ tr'.threadId \notin DOMAIN tr.sessions
                     /\ tr'.sessions[tr'.threadId].transcript = <<>>
                  \/ /\ startsWith(tr'.raw, UseCommand)
                     /\ tr'.threadId \in DOMAIN tr.sessions
                     /\ tr'.sessions = tr.sessions
            /\ (tr'.outcome = "not found") =>
                  (tr'.threadId = tr.threadId /\ tr'.sessions = tr.sessions)
            /\ (tr.pc = "prompt" /\ tr'.pc = "stream") =>
                  /\ tr'.threadId = tr.threadId
                  /\ tr'.sessions[tr.threadId].transcript =
                        Append(current, [role |-> "user", content |-> "hi"])
            /\ (tr.pc = "stream" /\ tr'.outcome = "replied") =>
                  /\ tr'.threadId = tr.threadId
                  /\ tr'.pc = "prompt"
                  /\ tr'.sessions[tr.threadId].transcript =
                        Append(current, [role |-> "assistant",
                                         content |-> StreamedText(tr'.events)])
            /\ (tr.pc = "stream" /\ tr'.outcome = "failed") =>
                  /\ tr'.threadId = tr.threadId
                  /\ tr'.pc = "prompt"
                  /\ tr'.sessions = tr.sessions
                  /\ current[Len(current)].role = "user"
            /\ (tr.pc = tr'.pc /\ tr'.threadId = tr.threadId) =>
                  tr'.sessions = tr.sessions ]_vars

C30_Witness ==
    /\ tr.pc = "prompt"
    /\ tr.outcome = "switched"
    /\ Cardinality(DOMAIN tr.sessions) = 2
    /\ tr.n = 2
    /\ \E other \in DOMAIN tr.sessions \ {tr.threadId} :
          /\ Len(tr.sessions[other].transcript) = 1
          /\ tr.sessions[other].transcript[1].role = "user"
    /\ Len(tr.sessions[tr.threadId].transcript) = 2
    /\ tr.sessions[tr.threadId].transcript[2] = [role |-> "assistant", content |-> "abc"]

====
